---- MODULE Spec2Model ----
(***************************************************************************)
(* A model of the redoc document conversion toolkit: the converter         *)
(* registry (redoc/converters/__init__.py), the facade (redoc/core.py) and *)
(* the six format converters (redoc/converters/*_converter.py).            *)
(*                                                                         *)
(* Python values are modelled as follows.                                  *)
(*   - str and pathlib.Path are TLA+ strings; lower(), Path.suffix,        *)
(*     Path.with_suffix and Path.parent are computed character by          *)
(*     character.                                                          *)
(*   - an exception is a record [type, tag, cause]; cause is the           *)
(*     __cause__ link set by "raise ... from e" (NoExc when there is       *)
(*     none).  The implicit __context__ link is not a cause.               *)
(*   - a call returns a record [kind, value, exc, w]: kind is "return" or  *)
(*     "raise", and w is the world after the call: the files and           *)
(*     directories on disk, the loaded modules and the registry, and the   *)
(*     trace of the steps the call took.                                   *)
(***************************************************************************)
EXTENDS Integers, Sequences, FiniteSets, TLC

VARIABLES
    interp,       \* how the interpreter evaluates annotations: "eager" or "lazy"
    loaded,       \* sys.modules: the modules of the package that are loaded
    callerLoaded, \* the converter modules the caller imported itself
    CONVERTERS,   \* redoc.converters._CONVERTERS: format name -> converter class
    regLog,       \* history: the register_converter calls made so far, in order
    fs,           \* the files and directories on disk
    last,         \* the last call made: its arguments, outcome and trace
    converted,    \* whether the conversion call of this behaviour has been made
    callers,      \* the get_converter calls of concurrent callers and their progress
    heap          \* the converter instances made, their lists, and what the caller holds

vars ==
    <<interp, loaded, callerLoaded, CONVERTERS, regLog, fs, last, converted, callers,
      heap>>

-----------------------------------------------------------------------------
(* Bounds of the model *)

MaxRegs == 2     \* registrations made: module imports and register_converter calls

MaxInstances == 2  \* converter instances made by get_converter

-----------------------------------------------------------------------------
(* str: lower() *)

UpperChars == "ABCDEFGHIJKLMNOPQRSTUVWXYZ"
LowerChars == "abcdefghijklmnopqrstuvwxyz"

RECURSIVE IndexIn(_, _, _)
IndexIn(c, s, i) ==
    IF i > Len(s) THEN 0
    ELSE IF SubSeq(s, i, i) = c THEN i
    ELSE IndexIn(c, s, i + 1)

LowerChar(c) ==
    LET k == IndexIn(c, UpperChars, 1)
    IN  IF k = 0 THEN c ELSE SubSeq(LowerChars, k, k)

RECURSIVE lower(_)
lower(s) ==
    IF Len(s) = 0 THEN ""
    ELSE LowerChar(SubSeq(s, 1, 1)) \o lower(SubSeq(s, 2, Len(s)))

(* pathlib.PurePath: name, parent, suffix, with_suffix *)

RECURSIVE rfind(_, _, _)
rfind(s, c, i) ==
    IF i = 0 THEN 0
    ELSE IF SubSeq(s, i, i) = c THEN i
    ELSE rfind(s, c, i - 1)

PathName(p) == SubSeq(p, rfind(p, "/", Len(p)) + 1, Len(p))

PathParent(p) ==
    LET k == rfind(p, "/", Len(p))
    IN  IF k = 0 THEN "." ELSE SubSeq(p, 1, k - 1)

\* Path.suffix: the last dot-separated part of the name, dot included; empty
\* when the name has no dot, starts with its only dot, or ends with a dot.
PathSuffix(p) ==
    LET name == PathName(p)
        k == rfind(name, ".", Len(name))
    IN  IF k > 1 /\ k < Len(name) THEN SubSeq(name, k, Len(name)) ELSE ""

\* Path.with_suffix(suffix): the path with its suffix replaced
PathWithSuffix(p, suffix) ==
    SubSeq(p, 1, Len(p) - Len(PathSuffix(p))) \o suffix

\* s[1:]
DropFirst(s) == SubSeq(s, 2, Len(s))

\* the directories output_path.parent.mkdir(parents=True) creates
RECURSIVE Ancestors(_)
Ancestors(d) ==
    IF d = "." THEN {"."} ELSE {d} \cup Ancestors(PathParent(d))

-----------------------------------------------------------------------------
(* Exceptions (redoc/exceptions.py) *)

NoExc == [type |-> "None"]

Exc(type, tag, cause) == [type |-> type, tag |-> tag, cause |-> cause]

\* class hierarchy of redoc/exceptions.py: every package error derives from
\* RedocError; everything else models a builtin or third-party exception
RedocErrorKinds ==
    {"RedocError", "ConversionError", "UnsupportedFormatError",
     "OCRProcessingError", "TemplateError", "ValidationError"}

IsInstance(e, type) ==
    \/ e.type = type
    \/ type = "RedocError" /\ e.type \in RedocErrorKinds
    \/ type = "Exception" /\ e.type # "None"

\* the types along the __cause__ links of e, e itself first
RECURSIVE CauseChain(_)
CauseChain(e) ==
    IF e.type = "None" THEN << >> ELSE <<e.type>> \o CauseChain(e.cause)

SeqToSet(s) == {s[i] : i \in DOMAIN s}

-----------------------------------------------------------------------------
(* Call results and the world a call acts on *)

None == "<None>"

\* files, dirs: the disk; loaded, reg, regLog: the interpreter's modules, the
\* registry and the registrations made; trace: the steps the call has taken
World(files, dirs, ld, reg, log) ==
    [files |-> files, dirs |-> dirs, loaded |-> ld, reg |-> reg, regLog |-> log,
     trace |-> << >>]

Return(value, w) == [kind |-> "return", value |-> value, exc |-> NoExc, w |-> w]

Raise(e, w) == [kind |-> "raise", value |-> None, exc |-> e, w |-> w]

Step(w, s) == [w EXCEPT !.trace = Append(@, s)]

\* a library, parser or tool raising `type`: the origin of a failure
Fail(type, w) == Raise(Exc(type, "origin", NoExc), Step(w, <<"raise", type>>))

\* except Exception as e: raise ConversionError(...) from e
WrapConversionError(r, tag) ==
    CHOOSE y \in {IF x.kind = "raise"
                  THEN Raise(Exc("ConversionError", tag, x.exc), x.w)
                  ELSE x : x \in {r}} : TRUE

-----------------------------------------------------------------------------
(* The registry (redoc/converters/__init__.py) *)

BuiltinModules ==
    {"pdf_converter", "html_converter", "xml_converter",
     "json_converter", "docx_converter", "epub_converter"}

\* the class each converter module defines and the name it registers it
\* under with @register_converter
ModuleClass(m) ==
    CASE m = "pdf_converter"  -> "PdfConverter"
      [] m = "html_converter" -> "HtmlConverter"
      [] m = "xml_converter"  -> "XmlConverter"
      [] m = "json_converter" -> "JsonConverter"
      [] m = "docx_converter" -> "DocxConverter"
      [] m = "epub_converter" -> "EpubConverter"

ModuleFormat(m) ==
    CASE m = "pdf_converter"  -> "pdf"
      [] m = "html_converter" -> "html"
      [] m = "xml_converter"  -> "xml"
      [] m = "json_converter" -> "json"
      [] m = "docx_converter" -> "docx"
      [] m = "epub_converter" -> "epub"

BuiltinFormats == {ModuleFormat(m) : m \in BuiltinModules}

BuiltinClasses == {ModuleClass(m) : m \in BuiltinModules}

\* a registration that keeps the class an identifier already has
register_converter_keepfirst(reg, format_name, converter_class) ==
    IF lower(format_name) \in DOMAIN reg THEN reg
    ELSE [k \in DOMAIN reg \cup {lower(format_name)} |->
            IF k = lower(format_name) THEN converter_class ELSE reg[k]]

\* a registration that rebuilds the mapping with the new entry alone
register_converter_rebuild(reg, format_name, converter_class) ==
    [k \in {lower(format_name)} |-> converter_class]

\* register_converter(format_name)(converter_class):
\*     _CONVERTERS[format_name.lower()] = converter_class
register_converter(reg, format_name, converter_class) ==
    [k \in DOMAIN reg \cup {lower(format_name)} |->
        IF k = lower(format_name) THEN converter_class ELSE reg[k]]

\* a lookup under the identifier as given, not lowercased
get_converter_nolower(reg, format_name) ==
    IF format_name \notin DOMAIN reg
    THEN [kind |-> "raise", value |-> None,
          exc |-> Exc("UnsupportedFormatError", format_name, NoExc), reg |-> reg]
    ELSE [kind |-> "return", value |-> reg[format_name], exc |-> NoExc, reg |-> reg]

\* get_converter(format_name): the result and the registry after the call
get_converter(reg, format_name) ==
    LET name == lower(format_name)
    IN  IF name \notin DOMAIN reg
        THEN [kind |-> "raise", value |-> None,
              exc |-> Exc("UnsupportedFormatError", name, NoExc), reg |-> reg]
        ELSE [kind |-> "return", value |-> reg[name], exc |-> NoExc, reg |-> reg]

\* "from .html_converter import HtmlConverter": the first import of a converter
\* module runs its body, whose @register_converter decorator registers the
\* class; a module already in sys.modules is not run again
ImportModule(m, w) ==
    IF m \in w.loaded THEN w
    ELSE [w EXCEPT !.loaded = @ \cup {m},
                   !.reg = register_converter(@, ModuleFormat(m), ModuleClass(m)),
                   !.regLog = Append(@, <<ModuleFormat(m), ModuleClass(m)>>),
                   !.trace = Append(@, <<"register", ModuleFormat(m)>>)]

-----------------------------------------------------------------------------
(* Python call machinery *)

\* statement sequencing: the rest runs only when r did not raise
Then(r, F(_)) ==
    CHOOSE y \in {IF x.kind = "raise" THEN x ELSE F(x.w) : x \in {r}} : TRUE

ThenV(r, F(_, _)) ==
    CHOOSE y \in {IF x.kind = "raise" THEN x ELSE F(x.value, x.w) : x \in {r}} : TRUE

\* try: r  except Exception as e: H(e); r is evaluated once
Catch(r, H(_)) ==
    CHOOSE y \in {IF x.kind = "raise" THEN H(x) ELSE x : x \in {r}} : TRUE

NoKwargs == [k \in {} |-> ""]

\* kwargs.get(key, default)
KwGet(kwargs, key, default) ==
    IF key \in DOMAIN kwargs THEN kwargs[key] ELSE default

\* f(..., name, **kwargs): passing the parameter `name` positionally and again
\* as a keyword is a TypeError raised before f's body runs
CallPositional(name, kwargs, w) ==
    IF name \in DOMAIN kwargs THEN Fail("TypeError", w) ELSE Return(None, w)

(* The environment of one call: what the machine lacks or gets wrong *)

\* env.missing: the third-party libraries that cannot be imported
\* env.parse:   whether the source's content is read and processed without error
\* env.tool:    the external command: "ok", "missing" (not installed),
\*              "exit" (non-zero exit status) or "nooutput" (exit 0, no file)
ImportLib(lib, env, w) ==
    IF lib \in env.missing THEN Fail("ImportError", w) ELSE Return(None, w)

Process(env, type, w) ==
    IF env.parse THEN Return(None, w) ELSE Fail(type, w)

\* open(path, 'r'): the file must exist
OpenRead(path, w) ==
    IF path \in w.files THEN Return(None, Step(w, <<"read", path>>))
    ELSE Fail("FileNotFoundError", w)

\* open(path, 'w') and the libraries' save/write calls: the parent directory
\* must exist
WriteFile(path, w) ==
    IF PathParent(path) \in w.dirs
    THEN Return(None, Step([w EXCEPT !.files = @ \cup {path}], <<"write", path>>))
    ELSE Fail("FileNotFoundError", w)

\* output_path.parent.mkdir(parents=True, exist_ok=True)
MkdirParents(path, w) ==
    Return(None, Step([w EXCEPT !.dirs = @ \cup Ancestors(PathParent(path))],
                      <<"mkdir", PathParent(path)>>))

\* path.unlink() / os.unlink(path)
Unlink(path, w) ==
    IF path \in w.files
    THEN Return(None, Step([w EXCEPT !.files = @ \ {path}], <<"unlink", path>>))
    ELSE Fail("FileNotFoundError", w)

\* subprocess.run(cmd, check=True, ...)
RunTool(cmd, env, w) ==
    LET w1 == Step(w, <<"tool", cmd>>)
    IN  CASE env.tool = "missing" -> Fail("FileNotFoundError", w1)
          [] env.tool = "exit"    -> Fail("CalledProcessError", w1)
          [] OTHER                -> Return(None, w1)

\* except ImportError as e: raise ConversionError(...) from e
\* except Exception as e:   raise ConversionError(...) from e
ExceptImportErrorException(r, tag) ==
    Catch(r, LAMBDA x :
        IF x.exc.type = "ImportError"
        THEN Raise(Exc("ConversionError", "dependency", x.exc), x.w)
        ELSE Raise(Exc("ConversionError", tag, x.exc), x.w))

\* raise ConversionError(...) with no "from": the error has no cause
RaiseConversionError(tag, w) ==
    Raise(Exc("ConversionError", tag, NoExc), Step(w, <<"raise", "ConversionError">>))

-----------------------------------------------------------------------------
(* The file branch all six converters share *)

\* an output path that falls back to the extension of the source
ResolveOutput_default(source_path, output_file, kwargs, w) ==
    IF output_file = None
    THEN Return(PathWithSuffix(source_path,
                    "." \o KwGet(kwargs, "to_format", DropFirst(PathSuffix(source_path)))),
                Step(w, <<"with_suffix", source_path>>))
    ELSE Return(output_file, w)

\* source_path = Path(source)
\* if output_file is None:
\*     if 'to_format' not in kwargs: raise ValueError(...)
\*     output_file = source_path.with_suffix(f'.{to_format}')
\* output_path = Path(output_file)
ResolveOutput(source_path, output_file, kwargs, w) ==
    IF output_file = None
    THEN IF "to_format" \notin DOMAIN kwargs
         THEN Fail("ValueError", w)
         ELSE Return(PathWithSuffix(source_path, "." \o kwargs["to_format"]),
                     Step(w, <<"with_suffix", source_path>>))
    ELSE Return(output_file, w)

\* to_format = kwargs.get('to_format', output_path.suffix[1:].lower())
ToFormat(output_path, kwargs) ==
    KwGet(kwargs, "to_format", lower(DropFirst(PathSuffix(output_path))))

\* the format names a converter's __init__ puts in self.supported_formats
supported_formats(cls) ==
    CASE cls = "PdfConverter"  -> {"html", "xml", "json", "docx", "epub"}
      [] cls = "HtmlConverter" -> {"pdf", "xml", "json", "docx", "epub"}
      [] cls = "JsonConverter" -> {"pdf", "html", "xml", "yaml", "csv"}
      [] cls = "XmlConverter"  -> {"json", "html", "yaml", "csv", "pdf"}
      [] cls = "DocxConverter" -> {"pdf", "html", "txt", "md", "odt", "rtf"}
      [] cls = "EpubConverter" -> {"pdf", "html", "txt", "mobi", "azw3"}
      [] OTHER -> {}

\* the format a converter class is registered for
NativeFormat(cls) ==
    CASE cls = "PdfConverter"  -> "pdf"
      [] cls = "HtmlConverter" -> "html"
      [] cls = "JsonConverter" -> "json"
      [] cls = "XmlConverter"  -> "xml"
      [] cls = "DocxConverter" -> "docx"
      [] cls = "EpubConverter" -> "epub"
      [] OTHER -> None

-----------------------------------------------------------------------------
(* PdfConverter (redoc/converters/pdf_converter.py) *)

\* placeholder: no branch writes anything
PdfConverter_convert_from_pdf(source_path, output_path, to_format, kwargs, env, w) ==
    Return(output_path, Step(w, <<"export", to_format>>))

PdfConverter_convert_to_pdf(source_path, output_path, from_format, kwargs, env, w) ==
    Return(output_path, Step(w, <<"import", from_format>>))

PdfConverter_convert_from_template(template, output_file, kwargs, env, w) ==
    Fail("NotImplementedError", Step(w, <<"template", "pdf">>))

\* a convert that builds Path(source) before it looks at the type of source
PdfConverter_convert_pathfirst(source, output_file, kwargs, env, w) ==
    LET body ==
          ThenV(IF source.type = "dict"
                THEN Fail("TypeError", Step(w, <<"Path(source)", source.path>>))
                ELSE ResolveOutput(source.path, output_file, kwargs,
                                   Step(w, <<"Path(source)", source.path>>)),
            LAMBDA output_path, w1:
              PdfConverter_convert_from_pdf(source.path, output_path,
                  ToFormat(output_path, kwargs), kwargs, env, w1))
    IN  WrapConversionError(body, "PDF conversion failed")

PdfConverter_convert(source, output_file, kwargs, env, w) ==
    LET body ==
          IF source.type = "dict"
          THEN PdfConverter_convert_from_template(source, output_file, kwargs, env, w)
          ELSE ThenV(ResolveOutput(source.path, output_file, kwargs,
                                   Step(w, <<"Path(source)", source.path>>)),
                 LAMBDA output_path, w1:
                   LET from_format ==
                         KwGet(kwargs, "from_format",
                               lower(DropFirst(PathSuffix(source.path))))
                       to_format == ToFormat(output_path, kwargs)
                   IN  IF from_format = "pdf"
                       THEN Then(CallPositional("to_format", kwargs, w1),
                              LAMBDA w2: PdfConverter_convert_from_pdf(source.path,
                                  output_path, to_format, kwargs, env, w2))
                       ELSE Then(CallPositional("from_format", kwargs, w1),
                              LAMBDA w2: PdfConverter_convert_to_pdf(source.path,
                                  output_path, from_format, kwargs, env, w2)))
    IN  WrapConversionError(body, "PDF conversion failed")

-----------------------------------------------------------------------------
(* HtmlConverter (redoc/converters/html_converter.py) *)

\* the if/elif chain of _convert_from_html: a target format that no branch
\* names falls through to "return output_path"
HtmlExportBranch(output_path, to_format, env, w) ==
    CASE to_format = "pdf" ->
           Then(ImportLib("weasyprint", env, w), LAMBDA w1:
           WriteFile(output_path, w1))
      [] to_format = "docx" ->
           Then(ImportLib("docx", env, w), LAMBDA w1:
           Then(ImportLib("htmldocx", env, w1), LAMBDA w2:
           WriteFile(output_path, w2)))
      [] to_format = "epub" ->
           Then(ImportLib("ebooklib", env, w), LAMBDA w1:
           WriteFile(output_path, w1))
      [] to_format \in {"json", "xml"} ->
           WriteFile(output_path, w)
      [] OTHER -> Return(None, w)

HtmlConverter_convert_from_html(source_path, output_path, to_format, kwargs, env, w) ==
    LET body ==
          Then(ImportLib("bs4", env, Step(w, <<"export", to_format>>)), LAMBDA w1:
          Then(OpenRead(source_path, w1), LAMBDA w2:
          Then(Process(env, "UnicodeDecodeError", w2), LAMBDA w3:
          Then(HtmlExportBranch(output_path, to_format, env, w3), LAMBDA w4:
          Return(output_path, w4)))))
    IN  ExceptImportErrorException(body, "Failed to convert HTML")

HtmlConverter_convert_to_html(source_path, output_path, from_format, kwargs, env, w) ==
    RaiseConversionError("not implemented", Step(w, <<"import", from_format>>))

HtmlConverter_convert_from_template(template, output_file, kwargs, env, w) ==
    LET body ==
          Then(ImportLib("jinja2", env, Step(w, <<"template", "html">>)), LAMBDA w1:
          IF "template" \notin template.keys THEN Fail("ValueError", w1)
          ELSE IF "data" \notin template.keys THEN Fail("ValueError", w1)
          ELSE IF template.path \notin w1.files THEN Fail("TemplateNotFound", w1)
          ELSE Then(Process(env, "TemplateSyntaxError", w1), LAMBDA w2:
               IF output_file = None THEN Return("<html_content>", w2)
               ELSE Then(MkdirParents(output_file, w2), LAMBDA w3:
                    Then(WriteFile(output_file, w3), LAMBDA w4:
                    Return(output_file, w4)))))
    IN  WrapConversionError(body, "Template conversion failed")

HtmlConverter_convert(source, output_file, kwargs, env, w) ==
    LET body ==
          IF source.type = "dict"
          THEN HtmlConverter_convert_from_template(source, output_file, kwargs, env, w)
          ELSE ThenV(ResolveOutput(source.path, output_file, kwargs,
                                   Step(w, <<"Path(source)", source.path>>)),
                 LAMBDA output_path, w1:
                   LET from_format == KwGet(kwargs, "from_format", "html")
                       to_format == ToFormat(output_path, kwargs)
                   IN  IF from_format = "html"
                       THEN Then(CallPositional("to_format", kwargs, w1),
                              LAMBDA w2: HtmlConverter_convert_from_html(source.path,
                                  output_path, to_format, kwargs, env, w2))
                       ELSE Then(CallPositional("from_format", kwargs, w1),
                              LAMBDA w2: HtmlConverter_convert_to_html(source.path,
                                  output_path, from_format, kwargs, env, w2)))
    IN  WrapConversionError(body, "HTML conversion failed")

-----------------------------------------------------------------------------
(* JsonConverter (redoc/converters/json_converter.py) *)

\* _save_json: creates the parent directories, then writes
JsonConverter_save_json(output_path, w) ==
    Then(MkdirParents(output_path, w), LAMBDA w1:
    Then(WriteFile(output_path, w1), LAMBDA w2:
    Return(output_path, w2)))

\* _json_to_html / _xml_to_html: render the viewer template with jinja2
ViewerHtml(env, w) == ImportLib("jinja2", env, w)

\* the "to PDF via HTML" branch of _convert_from_json and _convert_from_xml:
\* write the staging file, convert it with a new HtmlConverter, unlink it
ViaHtmlToPdf(output_path, env, w) ==
    LET temp_html == PathWithSuffix(output_path, ".html")
    IN  Then(ViewerHtml(env, ImportModule("html_converter", w)), LAMBDA w1:
        Then(WriteFile(temp_html, w1), LAMBDA w2:
        Then(HtmlConverter_convert([type |-> "path", path |-> temp_html, keys |-> {}],
                 output_path, [from_format |-> "html", to_format |-> "pdf"], env, w2),
          LAMBDA w3: Unlink(temp_html, w3))))

JsonExportBranch(output_path, to_format, env, w) ==
    CASE to_format = "html" ->
           Then(ViewerHtml(env, ImportModule("html_converter", w)), LAMBDA w1:
           Then(MkdirParents(output_path, w1), LAMBDA w2:
           WriteFile(output_path, w2)))
      [] to_format = "pdf" -> ViaHtmlToPdf(output_path, env, w)
      [] to_format = "xml" ->
           Then(ImportLib("dicttoxml", env, w), LAMBDA w1:
           Then(MkdirParents(output_path, w1), LAMBDA w2:
           WriteFile(output_path, w2)))
      [] to_format = "yaml" ->
           Then(ImportLib("yaml", env, w), LAMBDA w1:
           Then(MkdirParents(output_path, w1), LAMBDA w2:
           WriteFile(output_path, w2)))
      [] to_format = "csv" -> WriteFile(output_path, w)
      [] OTHER -> Return(None, w)

JsonConverter_convert_from_json(source_path, output_path, to_format, kwargs, env, w) ==
    LET body ==
          Then(OpenRead(source_path, Step(w, <<"export", to_format>>)), LAMBDA w1:
          Then(Process(env, "JSONDecodeError", w1), LAMBDA w2:
          Then(JsonExportBranch(output_path, to_format, env, w2), LAMBDA w3:
          Return(output_path, w3))))
    IN  ExceptImportErrorException(body, "Failed to convert JSON")

JsonConverter_convert_to_json(source_path, output_path, from_format, kwargs, env, w) ==
    LET w0 == Step(w, <<"import", from_format>>)
        body ==
          CASE from_format \in {"csv", "yaml", "xml"} ->
                 Then(IF from_format = "yaml" THEN ImportLib("yaml", env, w0)
                      ELSE IF from_format = "xml" THEN ImportLib("xmltodict", env, w0)
                      ELSE Return(None, w0), LAMBDA w1:
                 Then(OpenRead(source_path, w1), LAMBDA w2:
                 Then(Process(env, "ParseError", w2), LAMBDA w3:
                 JsonConverter_save_json(output_path, w3))))
            [] OTHER -> RaiseConversionError("not implemented", w0)
    IN  ExceptImportErrorException(body, "Failed to convert to JSON")

JsonConverter_convert(source, output_file, kwargs, env, w) ==
    LET body ==
          IF source.type = "dict"
          THEN JsonConverter_save_json(
                   IF output_file = None THEN "output.json" ELSE output_file,
                   Step(w, <<"template", "json">>))
          ELSE ThenV(ResolveOutput(source.path, output_file, kwargs,
                                   Step(w, <<"Path(source)", source.path>>)),
                 LAMBDA output_path, w1:
                   LET from_format ==
                         KwGet(kwargs, "from_format",
                               IF lower(PathSuffix(source.path)) = ".json"
                               THEN "json" ELSE None)
                       to_format == ToFormat(output_path, kwargs)
                   IN  IF from_format = "json"
                       THEN Then(CallPositional("to_format", kwargs, w1),
                              LAMBDA w2: JsonConverter_convert_from_json(source.path,
                                  output_path, to_format, kwargs, env, w2))
                       ELSE Then(CallPositional("from_format", kwargs, w1),
                              LAMBDA w2: JsonConverter_convert_to_json(source.path,
                                  output_path, from_format, kwargs, env, w2)))
    IN  WrapConversionError(body, "JSON conversion failed")

-----------------------------------------------------------------------------
(* XmlConverter (redoc/converters/xml_converter.py) *)

\* _dict_to_xml: creates the parent directories, then writes
XmlConverter_dict_to_xml(output_path, w) ==
    Then(MkdirParents(output_path, w), LAMBDA w1:
    Then(WriteFile(output_path, w1), LAMBDA w2:
    Return(output_path, w2)))

XmlExportBranch(output_path, to_format, env, w) ==
    CASE to_format = "json" ->
           Then(MkdirParents(output_path, w), LAMBDA w1:
           WriteFile(output_path, w1))
      [] to_format = "yaml" ->
           Then(ImportLib("yaml", env, w), LAMBDA w1:
           Then(MkdirParents(output_path, w1), LAMBDA w2:
           WriteFile(output_path, w2)))
      [] to_format = "html" ->
           Then(ViewerHtml(env, ImportModule("html_converter", w)), LAMBDA w1:
           Then(MkdirParents(output_path, w1), LAMBDA w2:
           WriteFile(output_path, w2)))
      [] to_format = "csv" ->
           Then(MkdirParents(output_path, w), LAMBDA w1:
           WriteFile(output_path, w1))
      [] to_format = "pdf" -> ViaHtmlToPdf(output_path, env, w)
      [] OTHER -> Return(None, w)

\* except ET.ParseError / ImportError / Exception: each re-raises a
\* ConversionError from e
XmlConverter_convert_from_xml(source_path, output_path, to_format, kwargs, env, w) ==
    LET body ==
          Then(OpenRead(source_path, Step(w, <<"export", to_format>>)), LAMBDA w1:
          Then(Process(env, "ParseError", w1), LAMBDA w2:
          Then(XmlExportBranch(output_path, to_format, env, w2), LAMBDA w3:
          Return(output_path, w3))))
    IN  ExceptImportErrorException(body, "Failed to convert XML")

XmlConverter_convert_to_xml(source_path, output_path, from_format, kwargs, env, w) ==
    LET w0 == Step(w, <<"import", from_format>>)
        body ==
          CASE from_format \in {"json", "yaml", "csv"} ->
                 Then(IF from_format = "yaml" THEN ImportLib("yaml", env, w0)
                      ELSE Return(None, w0), LAMBDA w1:
                 Then(OpenRead(source_path, w1), LAMBDA w2:
                 Then(Process(env, "ParseError", w2), LAMBDA w3:
                 XmlConverter_dict_to_xml(output_path, w3))))
            [] OTHER -> RaiseConversionError("not implemented", w0)
    IN  ExceptImportErrorException(body, "Failed to convert to XML")

XmlConverter_convert(source, output_file, kwargs, env, w) ==
    LET body ==
          IF source.type = "dict"
          THEN XmlConverter_dict_to_xml(
                   IF output_file = None THEN "output.xml" ELSE output_file,
                   Step(w, <<"template", "xml">>))
          ELSE ThenV(ResolveOutput(source.path, output_file, kwargs,
                                   Step(w, <<"Path(source)", source.path>>)),
                 LAMBDA output_path, w1:
                   LET from_format ==
                         KwGet(kwargs, "from_format",
                               IF lower(PathSuffix(source.path)) = ".xml"
                               THEN "xml" ELSE None)
                       to_format == ToFormat(output_path, kwargs)
                   IN  IF from_format = "xml"
                       THEN Then(CallPositional("to_format", kwargs, w1),
                              LAMBDA w2: XmlConverter_convert_from_xml(source.path,
                                  output_path, to_format, kwargs, env, w2))
                       ELSE Then(CallPositional("from_format", kwargs, w1),
                              LAMBDA w2: XmlConverter_convert_to_xml(source.path,
                                  output_path, from_format, kwargs, env, w2)))
    IN  WrapConversionError(body, "XML conversion failed")

-----------------------------------------------------------------------------
(* DocxConverter (redoc/converters/docx_converter.py) *)

\* the file LibreOffice writes: the source's name with the new extension, in
\* the directory given as --outdir
ToolOutput(source_path, outdir, ext) ==
    LET name == PathName(PathWithSuffix(source_path, ext))
    IN  IF outdir = "." THEN name ELSE outdir \o "/" \o name

\* pdf_path = source_path.with_suffix(ext)
\* if pdf_path != output_path: pdf_path.replace(output_path)
RenameToolOutput(source_path, output_path, ext, w) ==
    LET default_output == PathWithSuffix(source_path, ext)
    IN  IF default_output = output_path THEN Return(None, w)
        ELSE IF default_output \in w.files /\ PathParent(output_path) \in w.dirs
        THEN Return(None, Step([w EXCEPT !.files = (@ \ {default_output}) \cup {output_path}],
                               <<"write", output_path>>))
        ELSE Fail("FileNotFoundError", w)

\* subprocess.run(['libreoffice', '--headless', '--convert-to', fmt,
\*                 '--outdir', outdir, source], check=True)
RunLibreOffice(source_path, outdir, ext, env, w) ==
    Then(RunTool("libreoffice", env, w), LAMBDA w1:
    IF env.tool = "nooutput" \/ source_path \notin w1.files THEN Return(None, w1)
    ELSE Return(None, Step([w1 EXCEPT !.files = @ \cup {ToolOutput(source_path, outdir, ext)},
                                      !.dirs = @ \cup Ancestors(outdir)],
                           <<"write", ToolOutput(source_path, outdir, ext)>>)))

\* a variant of _docx_to_pdf that runs LibreOffice once more when its run
\* fails
DocxConverter_docx_to_pdf_retry(source_path, output_path, kwargs, env, w) ==
    LET first ==
          Then(ImportLib("unoconv", env, w), LAMBDA w1:
          Then(WriteFile(output_path, Step(w1, <<"tool", "unoconv">>)), LAMBDA w2:
          Return(output_path, w2)))
        second(w0) ==
          Then(RunLibreOffice(source_path, PathParent(output_path), ".pdf", env,
                              Step(w0, <<"fallback", "libreoffice">>)),
            LAMBDA w1:
          Then(RenameToolOutput(source_path, output_path, ".pdf", w1), LAMBDA w2:
          Return(output_path, w2)))
        again(r) == IF r.kind = "return" THEN r ELSE second(r.w)
    IN  WrapConversionError(
            IF first.kind = "return" THEN first ELSE again(second(first.w)),
            "Failed to convert DOCX to PDF")

\* _docx_to_pdf: unoconv first; whatever it raises is swallowed and
\* LibreOffice is run instead
DocxConverter_docx_to_pdf(source_path, output_path, kwargs, env, w) ==
    LET first ==
          Then(ImportLib("unoconv", env, w), LAMBDA w1:
          Then(WriteFile(output_path, Step(w1, <<"tool", "unoconv">>)), LAMBDA w2:
          Return(output_path, w2)))
        second(w0) ==
          WrapConversionError(
            Then(RunLibreOffice(source_path, PathParent(output_path), ".pdf", env,
                                Step(w0, <<"fallback", "libreoffice">>)),
              LAMBDA w1:
            Then(RenameToolOutput(source_path, output_path, ".pdf", w1), LAMBDA w2:
            Return(output_path, w2))),
            "Install unoconv or libreoffice")
    IN  WrapConversionError(
            IF first.kind = "return" THEN first ELSE second(first.w),
            "Failed to convert DOCX to PDF")

DocxConverter_convert_with_libreoffice(source_path, output_path, target_format, kwargs, env, w) ==
    LET body ==
          IF target_format \notin {"pdf", "docx", "odt", "rtf", "txt", "html"}
          THEN RaiseConversionError("unsupported target format", w)
          ELSE Then(MkdirParents(output_path, w), LAMBDA w1:
               Then(RunLibreOffice(source_path, PathParent(output_path),
                                   "." \o target_format, env, w1), LAMBDA w2:
               Then(RenameToolOutput(source_path, output_path, "." \o target_format, w2),
                 LAMBDA w3: Return(output_path, w3))))
    IN  WrapConversionError(body, "libreoffice conversion failed")

\* _docx_to_markdown: a missing markdownify is re-raised without "from"
DocxConverter_docx_to_markdown(env, w) ==
    Then(ImportLib("bs4", env, w), LAMBDA w1:
    Catch(ImportLib("markdownify", env, w1),
          LAMBDA x : RaiseConversionError("dependency", x.w)))

DocxConverter_html_to_docx(source_path, output_path, kwargs, env, w) ==
    LET body ==
          Then(ImportLib("htmldocx", env, w), LAMBDA w1:
          Then(OpenRead(source_path, w1), LAMBDA w2:
          Then(Process(env, "UnicodeDecodeError", w2), LAMBDA w3:
          Then(MkdirParents(output_path, w3), LAMBDA w4:
          Then(WriteFile(output_path, w4), LAMBDA w5:
          Return(output_path, w5))))))
    IN  ExceptImportErrorException(body, "Failed to convert HTML to DOCX")

TempHtml == "/tmp/tmp0.html"

\* tempfile.NamedTemporaryFile(suffix='.html', delete=False)
NamedTemporaryFile(w) == WriteFile(TempHtml, w)

\* try: ... finally: try: os.unlink(temp) except: pass
FinallyUnlink(r, path) ==
    [r EXCEPT !.w = IF path \in r.w.files
                    THEN Step([r.w EXCEPT !.files = @ \ {path}], <<"unlink", path>>)
                    ELSE r.w]

DocxConverter_markdown_to_docx(source_path, output_path, kwargs, env, w) ==
    LET body ==
          Then(ImportLib("markdown", env, w), LAMBDA w1:
          Then(ImportLib("bs4", env, w1), LAMBDA w2:
          Then(OpenRead(source_path, w2), LAMBDA w3:
          Then(Process(env, "UnicodeDecodeError", w3), LAMBDA w4:
          Then(NamedTemporaryFile(w4), LAMBDA w5:
          Then(FinallyUnlink(
                 DocxConverter_html_to_docx(TempHtml, output_path, kwargs, env, w5),
                 TempHtml), LAMBDA w6:
          Return(output_path, w6)))))))
    IN  ExceptImportErrorException(body, "Failed to convert Markdown to DOCX")

DocxConverter_convert_from_docx(source_path, output_path, to_format, kwargs, env, w) ==
    LET written(w0) ==
          Then(MkdirParents(output_path, w0), LAMBDA w1:
          Then(WriteFile(output_path, w1), LAMBDA w2:
          Return(output_path, w2)))
        body ==
          Then(ImportLib("docx", env, Step(w, <<"export", to_format>>)), LAMBDA w1:
          Then(IF source_path \in w1.files THEN Return(None, Step(w1, <<"read", source_path>>))
               ELSE Fail("PackageNotFoundError", w1), LAMBDA w2:
          Then(Process(env, "BadZipFile", w2), LAMBDA w3:
          CASE to_format = "pdf" ->
                 DocxConverter_docx_to_pdf(source_path, output_path, kwargs, env, w3)
            [] to_format = "html" ->
                 Then(ImportLib("bs4", env, w3), LAMBDA w4: written(w4))
            [] to_format = "txt" -> written(w3)
            [] to_format = "md" ->
                 Then(DocxConverter_docx_to_markdown(env, w3), LAMBDA w4: written(w4))
            [] to_format \in {"odt", "rtf"} ->
                 DocxConverter_convert_with_libreoffice(source_path, output_path,
                     to_format, kwargs, env, w3)
            [] OTHER -> RaiseConversionError("not supported", w3))))
    IN  ExceptImportErrorException(body, "Failed to convert DOCX")

DocxConverter_convert_to_docx(source_path, output_path, from_format, kwargs, env, w) ==
    LET w0 == Step(w, <<"import", from_format>>)
        body ==
          CASE from_format = "html" ->
                 DocxConverter_html_to_docx(source_path, output_path, kwargs, env, w0)
            [] from_format = "md" ->
                 DocxConverter_markdown_to_docx(source_path, output_path, kwargs, env, w0)
            [] from_format \in {"odt", "rtf", "txt"} ->
                 DocxConverter_convert_with_libreoffice(source_path, output_path,
                     "docx", kwargs, env, w0)
            [] OTHER -> RaiseConversionError("not implemented", w0)
    IN  WrapConversionError(body, "Failed to convert to DOCX")

DocxConverter_convert_from_template(template, output_file, kwargs, env, w) ==
    LET output_path == IF output_file = None THEN "output.docx" ELSE output_file
        body ==
          Then(ImportLib("docx", env, Step(w, <<"template", "docx">>)), LAMBDA w1:
          Then(Process(env, "ValueError", w1), LAMBDA w2:
          Then(MkdirParents(output_path, w2), LAMBDA w3:
          Then(WriteFile(output_path, w3), LAMBDA w4:
          Return(output_path, w4)))))
    IN  ExceptImportErrorException(body, "Template conversion failed")

DocxConverter_convert(source, output_file, kwargs, env, w) ==
    LET body ==
          IF source.type = "dict"
          THEN DocxConverter_convert_from_template(source, output_file, kwargs, env, w)
          ELSE ThenV(ResolveOutput(source.path, output_file, kwargs,
                                   Step(w, <<"Path(source)", source.path>>)),
                 LAMBDA output_path, w1:
                   LET from_format ==
                         KwGet(kwargs, "from_format",
                               IF lower(PathSuffix(source.path)) = ".docx"
                               THEN "docx" ELSE None)
                       to_format == ToFormat(output_path, kwargs)
                   IN  IF from_format = "docx"
                       THEN Then(CallPositional("to_format", kwargs, w1),
                              LAMBDA w2: DocxConverter_convert_from_docx(source.path,
                                  output_path, to_format, kwargs, env, w2))
                       ELSE Then(CallPositional("from_format", kwargs, w1),
                              LAMBDA w2: DocxConverter_convert_to_docx(source.path,
                                  output_path, from_format, kwargs, env, w2)))
    IN  WrapConversionError(body, "DOCX conversion failed")

-----------------------------------------------------------------------------
(* EpubConverter (redoc/converters/epub_converter.py) *)

\* _convert_with_calibre: probe "ebook-convert --version" (its failure is
\* re-raised without "from"), create the output directory, run the
\* conversion, check that the output exists
EpubConverter_convert_with_calibre(source_path, output_path, target_format, kwargs, env, w) ==
    LET probe == Step(w, <<"tool", "ebook-convert --version">>)
        body ==
          IF env.tool = "missing"
          THEN RaiseConversionError("ebook-convert is required",
                                    Step(probe, <<"raise", "FileNotFoundError">>))
          ELSE Then(MkdirParents(output_path, probe), LAMBDA w1:
               Then(RunTool("ebook-convert", env, w1), LAMBDA w2:
               IF env.tool = "nooutput" \/ source_path \notin w2.files
               THEN IF output_path \in w2.files THEN Return(output_path, w2)
                    ELSE RaiseConversionError("Conversion failed", w2)
               ELSE Then(WriteFile(output_path, w2), LAMBDA w3:
                    Return(output_path, w3))))
    IN  WrapConversionError(body, "Failed to convert with Calibre")

EpubConverter_epub_to_html(source_path, output_path, kwargs, env, w) ==
    LET body ==
          Then(ImportLib("ebooklib", env, w), LAMBDA w1:
          Then(ImportLib("bs4", env, w1), LAMBDA w2:
          Then(OpenRead(source_path, w2), LAMBDA w3:
          Then(Process(env, "BadZipFile", w3), LAMBDA w4:
          Then(MkdirParents(output_path, w4), LAMBDA w5:
          Then(WriteFile(output_path, w5), LAMBDA w6:
          Return(output_path, w6)))))))
    IN  ExceptImportErrorException(body, "Failed to convert EPUB to HTML")

\* _epub_to_text: through a staging .html file next to the output; when that
\* fails for any reason, a second extraction straight from the EPUB is tried
EpubConverter_epub_to_text(source_path, output_path, kwargs, env, w) ==
    LET temp_html == PathWithSuffix(output_path, ".html")
        first ==
          Then(EpubConverter_epub_to_html(source_path, temp_html, kwargs, env, w),
            LAMBDA w1:
          Then(OpenRead(temp_html, w1), LAMBDA w2:
          Then(MkdirParents(output_path, w2), LAMBDA w3:
          Then(WriteFile(output_path, w3), LAMBDA w4:
          Return(output_path,
                 IF temp_html \in w4.files
                 THEN Step([w4 EXCEPT !.files = @ \ {temp_html}], <<"unlink", temp_html>>)
                 ELSE w4)))))
        fallback(w0) ==
          LET body ==
                Then(ImportLib("ebooklib", env, Step(w0, <<"fallback", "epub_to_text">>)),
                  LAMBDA w1:
                Then(OpenRead(source_path, w1), LAMBDA w2:
                Then(Process(env, "BadZipFile", w2), LAMBDA w3:
                Then(MkdirParents(output_path, w3), LAMBDA w4:
                Then(WriteFile(output_path, w4), LAMBDA w5:
                Return(output_path, w5))))))
          IN  WrapConversionError(body, "Fallback also failed")
    IN  IF first.kind = "return" THEN first ELSE fallback(first.w)

EpubConverter_html_to_epub(source_path, output_path, kwargs, env, w) ==
    LET body ==
          Then(ImportLib("ebooklib", env, w), LAMBDA w1:
          Then(ImportLib("bs4", env, w1), LAMBDA w2:
          Then(OpenRead(source_path, w2), LAMBDA w3:
          Then(Process(env, "UnicodeDecodeError", w3), LAMBDA w4:
          Then(MkdirParents(output_path, w4), LAMBDA w5:
          Then(WriteFile(output_path, w5), LAMBDA w6:
          Return(output_path, w6)))))))
    IN  ExceptImportErrorException(body, "Failed to convert HTML to EPUB")

EpubConverter_text_to_epub(source_path, output_path, kwargs, env, w) ==
    LET body ==
          Then(OpenRead(source_path, w), LAMBDA w1:
          Then(Process(env, "UnicodeDecodeError", w1), LAMBDA w2:
          Then(NamedTemporaryFile(w2), LAMBDA w3:
          FinallyUnlink(
              EpubConverter_html_to_epub(TempHtml, output_path, kwargs, env, w3),
              TempHtml))))
    IN  WrapConversionError(body, "Failed to convert text to EPUB")

EpubConverter_convert_from_epub(source_path, output_path, to_format, kwargs, env, w) ==
    LET w0 == Step(w, <<"export", to_format>>)
        body ==
          CASE to_format \in {"pdf", "mobi", "azw3"} ->
                 EpubConverter_convert_with_calibre(source_path, output_path,
                     to_format, kwargs, env, w0)
            [] to_format = "html" ->
                 EpubConverter_epub_to_html(source_path, output_path, kwargs, env, w0)
            [] to_format = "txt" ->
                 EpubConverter_epub_to_text(source_path, output_path, kwargs, env, w0)
            [] OTHER -> RaiseConversionError("not supported", w0)
    IN  WrapConversionError(body, "Failed to convert EPUB")

EpubConverter_convert_to_epub(source_path, output_path, from_format, kwargs, env, w) ==
    LET w0 == Step(w, <<"import", from_format>>)
        body ==
          CASE from_format = "html" ->
                 EpubConverter_html_to_epub(source_path, output_path, kwargs, env, w0)
            [] from_format = "txt" ->
                 EpubConverter_text_to_epub(source_path, output_path, kwargs, env, w0)
            [] from_format \in {"pdf", "docx", "mobi", "azw3"} ->
                 EpubConverter_convert_with_calibre(source_path, output_path,
                     "epub", kwargs, env, w0)
            [] OTHER -> RaiseConversionError("not implemented", w0)
    IN  WrapConversionError(body, "Failed to convert to EPUB")

EpubConverter_convert_from_template(template, output_file, kwargs, env, w) ==
    LET output_path == IF output_file = None THEN "output.epub" ELSE output_file
        body ==
          Then(ImportLib("ebooklib", env, Step(w, <<"template", "epub">>)), LAMBDA w1:
          Then(ImportLib("bs4", env, w1), LAMBDA w2:
          Then(Process(env, "ValueError", w2), LAMBDA w3:
          Then(MkdirParents(output_path, w3), LAMBDA w4:
          Then(WriteFile(output_path, w4), LAMBDA w5:
          Return(output_path, w5))))))
    IN  ExceptImportErrorException(body, "Template conversion failed")

EpubConverter_convert(source, output_file, kwargs, env, w) ==
    LET body ==
          IF source.type = "dict"
          THEN EpubConverter_convert_from_template(source, output_file, kwargs, env, w)
          ELSE ThenV(ResolveOutput(source.path, output_file, kwargs,
                                   Step(w, <<"Path(source)", source.path>>)),
                 LAMBDA output_path, w1:
                   LET from_format ==
                         KwGet(kwargs, "from_format",
                               IF lower(PathSuffix(source.path)) = ".epub"
                               THEN "epub" ELSE None)
                       to_format == ToFormat(output_path, kwargs)
                   IN  IF from_format = "epub"
                       THEN Then(CallPositional("to_format", kwargs, w1),
                              LAMBDA w2: EpubConverter_convert_from_epub(source.path,
                                  output_path, to_format, kwargs, env, w2))
                       ELSE Then(CallPositional("from_format", kwargs, w1),
                              LAMBDA w2: EpubConverter_convert_to_epub(source.path,
                                  output_path, from_format, kwargs, env, w2)))
    IN  WrapConversionError(body, "EPUB conversion failed")

-----------------------------------------------------------------------------
(* Dispatch on the converter's class, and the facade (redoc/core.py) *)

\* classes a caller registers: CustomA converts, CustomB raises an error of
\* its own
CustomClasses == {"CustomA", "CustomB"}

\* converter.convert(source, output_file=output_file, **kwargs)
Convert(cls, source, output_file, kwargs, env, w) ==
    CASE cls = "PdfConverter"  -> PdfConverter_convert(source, output_file, kwargs, env, w)
      [] cls = "HtmlConverter" -> HtmlConverter_convert(source, output_file, kwargs, env, w)
      [] cls = "JsonConverter" -> JsonConverter_convert(source, output_file, kwargs, env, w)
      [] cls = "XmlConverter"  -> XmlConverter_convert(source, output_file, kwargs, env, w)
      [] cls = "DocxConverter" -> DocxConverter_convert(source, output_file, kwargs, env, w)
      [] cls = "EpubConverter" -> EpubConverter_convert(source, output_file, kwargs, env, w)
      [] cls = "CustomA" -> Return("<custom result>", Step(w, <<"custom", cls>>))
      [] OTHER -> Fail("RuntimeError", Step(w, <<"custom", cls>>))

\* a facade that forwards the source and the output file without the options
Redoc_convert_nooptions(source, target_format, output_file, kwargs, env, w) ==
    LET got == get_converter(w.reg, lower(target_format))
        r == IF got.kind = "raise"
             THEN Raise(got.exc, Step(w, <<"raise", got.exc.type>>))
             ELSE Convert(got.value, source, output_file, NoKwargs, env,
                          [w EXCEPT !.reg = got.reg])
    IN  Catch(r, LAMBDA x :
            Raise(Exc("RedocError", "Failed to convert document", x.exc), x.w))

\* a facade that lets the registry's UnsupportedFormatError through as it is
Redoc_convert_reraise(source, target_format, output_file, kwargs, env, w) ==
    LET got == get_converter(w.reg, lower(target_format))
    IN  IF got.kind = "raise"
        THEN Raise(got.exc, Step(w, <<"raise", got.exc.type>>))
        ELSE LET r == Convert(got.value, source, output_file, kwargs, env,
                              [w EXCEPT !.reg = got.reg])
             IN  Catch(r, LAMBDA x :
                     Raise(Exc("RedocError", "Failed to convert document", x.exc), x.w))

\* Redoc.convert: the try block, and
\*     except Exception as e: raise RedocError(...) from e
Redoc_convert(source, target_format, output_file, kwargs, env, w) ==
    LET got == get_converter(w.reg, lower(target_format))
        r == IF got.kind = "raise"
             THEN Raise(got.exc, Step(w, <<"raise", got.exc.type>>))
             ELSE Convert(got.value, source, output_file, kwargs, env,
                          [w EXCEPT !.reg = got.reg])
    IN  Catch(r, LAMBDA x :
            Raise(Exc("RedocError", "Failed to convert document", x.exc), x.w))

-----------------------------------------------------------------------------
(* OCRProcessor (redoc/ocr/processor.py) and the rest of the facade *)

MaxPages == 3     \* pages of a PDF source

\* The machine an OCR call runs on:
\* oenv.engine:    "ok", "nolib" (pytesseract or PIL cannot be imported) or
\*                 "nobinary" (get_tesseract_version raises TesseractNotFoundError)
\* oenv.pdf2image: whether pdf2image can be imported
\* oenv.raster:    whether convert_from_path rasterizes the PDF
\* oenv.npages:    the pages of the PDF source
\* oenv.bad:       the images on which tesseract raises
\* oenv.reportlab: "ok", "missing" (cannot be imported) or "fails" (a drawing
\*                 call raises)

\* an output_file argument: None, a str or a Path
NoOutput == [type |-> "None", path |-> None]

StrOutput(p) == [type |-> "str", path |-> p]

PathOutput(p) == [type |-> "Path", path |-> p]

\* "if output_file:"
Truthy(output_file) == output_file.type # "None"

\* what tesseract reads on an image: images are numbered, an image file is
\* its own single image
PageText(image) == <<"text of", image>>

ImageOf(source_path) == 1

\* _initialize_engine: the engine, or None after a warning
OCRProcessor_initialize_engine(oenv) ==
    IF oenv.engine = "ok" THEN "tesseract" ELSE None

\* except Exception as e: raise OCRProcessingError(...) from e
WrapOCRProcessingError(r, tag) ==
    Catch(r, LAMBDA x : Raise(Exc("OCRProcessingError", tag, x.exc), x.w))

\* raise OCRProcessingError(...) with no "from"
RaiseOCRProcessingError(tag, w) ==
    Raise(Exc("OCRProcessingError", tag, NoExc),
          Step(w, <<"raise", "OCRProcessingError">>))

\* self.engine['pytesseract'].image_to_string / image_to_pdf_or_hocr
Tesseract(call, image, oenv, w) ==
    IF image \in oenv.bad
    THEN Fail("TesseractError", Step(w, <<call, image>>))
    ELSE Return(PageText(image), Step(w, <<call, image>>))

OcrMetadata(kwargs) ==
    [language |-> KwGet(kwargs, "language", "eng"), engine |-> "tesseract"]

OCRProcessor_process_with_tesseract(image, output_file, kwargs, oenv, w) ==
    LET body ==
          IF Truthy(output_file)
          THEN IF output_file.type = "str"
               THEN Fail("AttributeError", w)
               ELSE LET out == IF lower(PathSuffix(output_file.path)) # ".pdf"
                               THEN PathWithSuffix(output_file.path, ".pdf")
                               ELSE output_file.path
                    IN  Then(Tesseract("image_to_pdf_or_hocr", image, oenv, w),
                          LAMBDA w1:
                            ThenV(Tesseract("image_to_string", image, oenv, w1),
                              LAMBDA text, w2:
                                Return([success |-> TRUE, output_file |-> out,
                                        text |-> text], w2)))
          ELSE ThenV(Tesseract("image_to_string", image, oenv, w),
                 LAMBDA text, w1:
                   Return([success |-> TRUE, text |-> text,
                           metadata |-> OcrMetadata(kwargs)], w1))
    IN  WrapOCRProcessingError(body, "Tesseract processing failed")

\* the engine is always the tesseract one when there is an engine
OCRProcessor_process_image(image, output_file, kwargs, oenv, w) ==
    OCRProcessor_process_with_tesseract(image, output_file, kwargs, oenv, w)

\* images = convert_from_path(pdf_path)
ConvertFromPath(pdf_path, oenv, w) ==
    IF oenv.raster
    THEN Return([i \in 1..oenv.npages |-> i], Step(w, <<"rasterize", pdf_path>>))
    ELSE Fail("PDFPageCountError", Step(w, <<"rasterize", pdf_path>>))

\* for i, image in enumerate(images): results.append({'page': i + 1, ...}),
\* i counted from 0 there and from 1 here
RECURSIVE ProcessPages(_, _, _, _, _, _)
ProcessPages(images, i, results, kwargs, oenv, w) ==
    IF i > Len(images) THEN Return(results, w)
    ELSE ThenV(OCRProcessor_process_image(images[i], NoOutput, kwargs, oenv, w),
           LAMBDA result, w1:
             ProcessPages(images, i + 1,
                 Append(results, [page |-> i, text |-> result.text,
                                  metadata |-> result.metadata]),
                 kwargs, oenv, w1))

\* for i, image in enumerate(images): recognize again, draw text and image
RECURSIVE DrawPages(_, _, _, _, _)
DrawPages(images, i, kwargs, oenv, w) ==
    IF i > Len(images) THEN Return(None, w)
    ELSE Then(OCRProcessor_process_with_tesseract(images[i], NoOutput, kwargs, oenv, w),
           LAMBDA w1:
             IF oenv.reportlab = "fails"
             THEN Fail("ReportLabError", w1)
             ELSE DrawPages(images, i + 1, kwargs, oenv,
                            Step(w1, <<"drawpage", images[i]>>)))

OCRProcessor_create_searchable_pdf(images, output_path, kwargs, oenv, w) ==
    LET body ==
          Then(IF oenv.reportlab = "missing" THEN Fail("ImportError", w)
               ELSE Return(None, w),
            LAMBDA w1:
              Then(DrawPages(images, 1, kwargs, oenv, w1),
                LAMBDA w2: WriteFile(output_path.path, w2)))
    IN  WrapOCRProcessingError(body, "Failed to create searchable PDF")

\* a variant that numbers the pages from 0, as enumerate does
OCRProcessor_process_pdf_zerobased(pdf_path, output_file, kwargs, oenv, w) ==
    IF ~oenv.pdf2image
    THEN RaiseOCRProcessingError("PDF processing requires pdf2image",
                                 Step(w, <<"raise", "ImportError">>))
    ELSE LET body ==
               ThenV(ConvertFromPath(pdf_path, oenv, w),
                 LAMBDA images, w1:
                   ThenV(ProcessPages(images, 1, << >>, kwargs, oenv, w1),
                     LAMBDA results, w2:
                       Then(IF Truthy(output_file)
                            THEN OCRProcessor_create_searchable_pdf(
                                     images, output_file, kwargs, oenv, w2)
                            ELSE Return(None, w2),
                         LAMBDA w3:
                           Return([success |-> TRUE,
                                   pages |-> [k \in DOMAIN results |->
                                       [results[k] EXCEPT !.page = @ - 1]],
                                   output_file |-> output_file.path], w3))))
         IN  WrapOCRProcessingError(body, "PDF processing failed")

OCRProcessor_process_pdf(pdf_path, output_file, kwargs, oenv, w) ==
    IF ~oenv.pdf2image
    THEN RaiseOCRProcessingError("PDF processing requires pdf2image",
                                 Step(w, <<"raise", "ImportError">>))
    ELSE LET body ==
               ThenV(ConvertFromPath(pdf_path, oenv, w),
                 LAMBDA images, w1:
                   ThenV(ProcessPages(images, 1, << >>, kwargs, oenv, w1),
                     LAMBDA results, w2:
                       Then(IF Truthy(output_file)
                            THEN OCRProcessor_create_searchable_pdf(
                                     images, output_file, kwargs, oenv, w2)
                            ELSE Return(None, w2),
                         LAMBDA w3:
                           Return([success |-> TRUE, pages |-> results,
                                   output_file |-> output_file.path], w3))))
         IN  WrapOCRProcessingError(body, "PDF processing failed")

\* a process that tests the engine inside its try block
OCRProcessor_process_engineintry(engine, source, output_file, kwargs, oenv, w) ==
    LET w0 == Step(w, <<"Path(source)", source>>)
        body ==
          IF source \notin w.files
          THEN Fail("FileNotFoundError", w0)
          ELSE IF engine = None
               THEN RaiseOCRProcessingError("No OCR engine available", w0)
               ELSE IF lower(PathSuffix(source)) = ".pdf"
                    THEN OCRProcessor_process_pdf(source, output_file, kwargs, oenv, w0)
                    ELSE OCRProcessor_process_image(ImageOf(source), output_file,
                                                    kwargs, oenv, w0)
    IN  WrapOCRProcessingError(body, "OCR processing failed")

\* a process whose try block starts after the source has been looked at
OCRProcessor_process_latetry(engine, source, output_file, kwargs, oenv, w) ==
    IF engine = None
    THEN RaiseOCRProcessingError("No OCR engine available", w)
    ELSE LET w0 == Step(w, <<"Path(source)", source>>)
         IN  IF source \notin w.files
             THEN Fail("FileNotFoundError", w0)
             ELSE WrapOCRProcessingError(
                      IF lower(PathSuffix(source)) = ".pdf"
                      THEN OCRProcessor_process_pdf(source, output_file, kwargs, oenv, w0)
                      ELSE OCRProcessor_process_image(ImageOf(source), output_file,
                                                      kwargs, oenv, w0),
                      "OCR processing failed")

\* OCRProcessor.process on a processor whose engine is `engine`
OCRProcessor_process(engine, source, output_file, kwargs, oenv, w) ==
    IF engine = None
    THEN RaiseOCRProcessingError("No OCR engine available", w)
    ELSE LET w0 == Step(w, <<"Path(source)", source>>)
             body ==
               IF source \notin w.files
               THEN Fail("FileNotFoundError", w0)
               ELSE IF lower(PathSuffix(source)) = ".pdf"
                    THEN OCRProcessor_process_pdf(source, output_file, kwargs, oenv, w0)
                    ELSE OCRProcessor_process_image(ImageOf(source), output_file,
                                                    kwargs, oenv, w0)
         IN  WrapOCRProcessingError(body, "OCR processing failed")

\* Redoc().ocr(source, output_file, **kwargs): the processor is made by
\* Redoc.__init__, ocr returns what its process returns
Redoc_ocr(source, output_file, kwargs, oenv, w) ==
    OCRProcessor_process(OCRProcessor_initialize_engine(oenv), source, output_file,
                         kwargs, oenv, w)

\* Redoc().generate(prompt, format, output_file, **kwargs)
Redoc_generate(prompt, format, output_file, kwargs, w) ==
    LET r == Fail("NotImplementedError", w)
    IN  Raise(Exc("RedocError", "Failed to generate document", r.exc), r.w)

-----------------------------------------------------------------------------
(* TemplateRenderer and TemplateManager (redoc/templates/base.py) *)

\* The exceptions of templates/base.py are classes of that module, derived
\* from Exception: "base.TemplateError" and its subclass
\* "base.TemplateValidationError".

\* tenv.load:   whether jinja2 parses a template file it finds
\* tenv.render: whether template.render(**model.dict()) succeeds

\* TemplateRenderer.get_template on a renderer made with template_dir
TemplateRenderer_get_template(template_dir, template_name, tenv, w) ==
    CASE template_dir = None ->
            Raise(Exc("base.TemplateError", "Error loading template",
                      Exc("TypeError", "origin", NoExc)),
                  Step(w, <<"raise", "TypeError">>))
      [] (template_dir \o "/" \o template_name) \notin w.files ->
            Raise(Exc("base.TemplateError", "Template not found",
                      Exc("TemplateNotFound", "origin", NoExc)),
                  Step(w, <<"raise", "TemplateNotFound">>))
      [] ~tenv.load ->
            Raise(Exc("base.TemplateError", "Error loading template",
                      Exc("TemplateSyntaxError", "origin", NoExc)),
                  Step(w, <<"raise", "TemplateSyntaxError">>))
      [] OTHER ->
            Return(template_name,
                   Step(w, <<"read", template_dir \o "/" \o template_name>>))

\* TemplateManager.validate_data: data is "valid", "invalid" (the model
\* rejects it) or "notmapping" (model_class(**data) raises TypeError)
TemplateManager_validate_data(data, w) ==
    CASE data = "invalid" ->
            Raise(Exc("base.TemplateValidationError", "Data validation failed",
                      Exc("ValidationError", "origin", NoExc)),
                  Step(w, <<"raise", "ValidationError">>))
      [] data = "notmapping" -> Fail("TypeError", w)
      [] OTHER -> Return(data, Step(w, <<"validate", data>>))

\* output_path.write_text(rendered): the parent directory exists by now; the
\* path must not be a directory
WriteText(path, w) ==
    IF path \in w.dirs THEN Fail("IsADirectoryError", w) ELSE WriteFile(path, w)

\* TemplateManager.render_template on a manager made with template_dir
TemplateManager_render_template(template_dir, template_name, data, output_path, tenv, w) ==
    LET body ==
          Then(TemplateManager_validate_data(data, w),
            LAMBDA w1:
              Then(TemplateRenderer_get_template(template_dir, template_name, tenv, w1),
                LAMBDA w2:
                  Then(IF tenv.render THEN Return(None, Step(w2, <<"render", template_name>>))
                       ELSE Fail("UndefinedError", w2),
                    LAMBDA w3:
                      IF output_path # None
                      THEN Then(MkdirParents(output_path, w3),
                             LAMBDA w4:
                               Then(WriteText(output_path, w4),
                                 LAMBDA w5: Return("<rendered>", w5)))
                      ELSE Return("<rendered>", w3))))
    IN  Catch(body, LAMBDA x :
            Raise(Exc("base.TemplateError", "Error rendering template", x.exc), x.w))

-----------------------------------------------------------------------------
(* Inputs *)

PathSource(p) == [type |-> "path", path |-> p, keys |-> {}]

DictSource(keys) == [type |-> "dict", path |-> "tpl/invoice.html", keys |-> keys]

DictSources == {DictSource({"template", "data"}), DictSource({"template"})}

SourceFiles == {"a.html", "a.json", "a.xml", "a.docx", "a.epub", "a.PDF", "a.txt"}

PathSources == {PathSource(p) : p \in SourceFiles \cup {"gone.md"}}

Outputs == {None, "b.pdf", "out/b.HTML", "b.txt", "b.json"}

KwargsSet ==
    {NoKwargs, [title |-> "T"], [to_format |-> "pdf"], [to_format |-> "txt"],
     [from_format |-> "html"], [from_format |-> "html", to_format |-> "pdf"]}

AllLibs ==
    {"bs4", "weasyprint", "docx", "htmldocx", "ebooklib", "jinja2", "dicttoxml",
     "yaml", "xmltodict", "markdown", "markdownify", "unoconv"}

EnvOk == [missing |-> {}, parse |-> TRUE, tool |-> "ok"]

Envs ==
    {EnvOk,
     [missing |-> AllLibs, parse |-> TRUE, tool |-> "ok"],
     [missing |-> {"unoconv"}, parse |-> TRUE, tool |-> "ok"],
     [missing |-> {"unoconv", "markdownify"}, parse |-> TRUE, tool |-> "missing"],
     [missing |-> {"unoconv"}, parse |-> TRUE, tool |-> "exit"],
     [missing |-> {}, parse |-> FALSE, tool |-> "nooutput"]}

\* template documents with each of the four key sets
TemplateSources == {DictSource(ks) : ks \in SUBSET {"template", "data"}}

\* the arguments of render_template: the manager's template directory, the
\* template name, the data (accepted by the model, rejected by it, or not a
\* mapping) and the output path
TemplateArgs ==
    [template_dir : {"tpl", None},
     template_name : {"invoice.html", "missing.html"},
     data : {"valid", "invalid", "notmapping"},
     output_path : {None, "b.html", "out/r/b.html", "tpl"}]

TemplateEnvs == [load : BOOLEAN, render : BOOLEAN]

\* the disks a behaviour may start from: the source files and the template
\* exist; the directory "out" may or may not
InitDisks ==
    {[files |-> SourceFiles \cup {"tpl/invoice.html"}, dirs |-> {".", "/tmp", "tpl"} \cup d]
        : d \in {{}, {"out"}}}

\* identifiers passed to register_converter and get_converter
RegNames == {"PDF", "md"}

GetNames == {"pdf", "PDF", "Md", "zz"}

\* what the facade is called with in the registry specification
FacadeSources == {PathSource("a.html"), DictSource({"template", "data"})}

FacadeTargets == {"PDF", "zz"}

FacadeOutputs == {None, "b.pdf"}

\* what OCRProcessor.process and Redoc.ocr are called with
OcrSources == {"a.PDF", "a.txt", "gone.md"}

OcrOutputs == {NoOutput, StrOutput("o.pdf"), PathOutput("o.pdf"), PathOutput("out/o.png")}

OcrKwargs == {NoKwargs, [language |-> "pol"]}

OcrEnvs ==
    {[engine |-> e, pdf2image |-> p, raster |-> r, npages |-> n, bad |-> b,
      reportlab |-> l] :
        e \in {"ok", "nolib", "nobinary"}, p \in BOOLEAN, r \in BOOLEAN,
        n \in 0..MaxPages, b \in {{}} \cup {{k} : k \in 1..MaxPages},
        l \in {"ok", "missing", "fails"}}

\* the environments of the facade specification: one page at most
FacadeOcrEnvs ==
    {o \in OcrEnvs : o.npages <= 1 /\ o.bad \subseteq {1} /\ o.raster /\ o.reportlab = "ok"}

-----------------------------------------------------------------------------
(* PDFTemplateHandler (redoc/templates/pdf_handler.py) *)

\* from ..converters.<m> import <name>: the module is executed, then the name
\* is looked up among the names it binds; its converter class is ModuleClass(m)
ImportFrom(m, name, w) ==
    IF name = ModuleClass(m) THEN Return(None, ImportModule(m, w))
    ELSE Fail("ImportError", ImportModule(m, w))

\* the import of redoc.templates.pdf_handler, which asks pdf_converter for
\* the name PDFConverter
ImportPdfHandler(w) == ImportFrom("pdf_converter", "PDFConverter", w)

PDFTemplateHandler_render_pdf(template_dir, template_name, data, output_pdf, tenv, env, w) ==
    Then(TemplateManager_render_template(template_dir, template_name, data, None, tenv, w),
      LAMBDA w1:
    Then(NamedTemporaryFile(w1), LAMBDA w2:
    FinallyUnlink(
        Then(PdfConverter_convert(PathSource(TempHtml), output_pdf,
                 [from_format |-> "html", to_format |-> "pdf"], env, w2),
          LAMBDA w3: Return(output_pdf, w3)),
        TempHtml)))

\* extract_data: the temporary file is created empty and given to the
\* converter as its output; the markup read back is what the converter wrote
PDFTemplateHandler_extract_data(pdf_path, env, w) ==
    LET body ==
          Then(NamedTemporaryFile(w), LAMBDA w1:
          Then(PdfConverter_convert(PathSource(pdf_path), TempHtml,
                   [from_format |-> "pdf", to_format |-> "html"], env, w1),
            LAMBDA w2:
          Then(OpenRead(TempHtml, w2), LAMBDA w3:
            LET html == IF \E i \in DOMAIN w2.trace : i > Len(w1.trace)
                                 /\ w2.trace[i] = <<"write", TempHtml>>
                        THEN "<markup>" ELSE ""
            IN  Return([metadata |-> [source |-> pdf_path, pages |-> 1],
                        content |-> [html |-> html,
                                     text |-> IF html = "" THEN "" ELSE "<text>"]],
                       w3))))
    IN  FinallyUnlink(
            Catch(body, LAMBDA x :
                Raise(Exc("base.TemplateError", "Failed to extract data from PDF", x.exc),
                      x.w)),
            TempHtml)

\* the output PDFs of render_pdf and the artifacts given to extract_data
PdfOutputs == {"b.pdf", "out/r/b.pdf"}

PdfArtifacts == {"a.PDF", "gone.pdf"}

-----------------------------------------------------------------------------
(* State and actions *)

PackageModules ==
    {"redoc", "redoc.core", "redoc.converters", "redoc.exceptions", "redoc.ocr"}

EmptyRegistry == [k \in {} |-> ""]

NoCall == [op |-> "none"]

\* no concurrent caller
NoCallers == << >>

NoHeap == [objects |-> << >>, lists |-> << >>, held |-> {}, mutated |-> {}]

WorldNow == World(fs.files, fs.dirs, loaded, CONVERTERS, regLog)

\* import redoc: redoc/__init__.py imports .core, which imports .converters,
\* .exceptions and .ocr.  converters/__init__.py creates the empty registry
\* and imports no converter module; its BaseConverter.convert is annotated
\* "-> Any" without Any being imported, a NameError where annotations are
\* evaluated when the function is defined.
ImportPackage(ld, ip) ==
    IF ip = "eager"
    THEN [ok |-> FALSE, loaded |-> ld \cup {"redoc.exceptions"}]
    ELSE [ok |-> TRUE, loaded |-> ld \cup PackageModules]

ImportFacade ==
    /\ "redoc" \notin loaded
    /\ LET r == ImportPackage(loaded, interp)
       IN  /\ loaded' = r.loaded
           /\ last' = [op |-> "import", module |-> "redoc",
                       kind |-> IF r.ok THEN "return" ELSE "raise",
                       exc |-> IF r.ok THEN NoExc ELSE Exc("NameError", "Any", NoExc)]
    /\ CONVERTERS' = EmptyRegistry
    /\ UNCHANGED <<interp, callerLoaded, regLog, fs, converted, callers, heap>>

\* the caller imports redoc.converters.<m> itself: the package is imported
\* first, then the module body registers its class
ImportConverterModule(m) ==
    /\ m \notin loaded
    /\ Len(regLog) < MaxRegs
    /\ LET r == ImportPackage(loaded, interp)
       IN  IF r.ok
           THEN LET w == ImportModule(m, [WorldNow EXCEPT !.loaded = r.loaded,
                             !.reg = IF "redoc" \in loaded THEN CONVERTERS ELSE EmptyRegistry])
                IN  /\ loaded' = w.loaded
                    /\ CONVERTERS' = w.reg
                    /\ regLog' = w.regLog
                    /\ callerLoaded' = callerLoaded \cup {m}
                    /\ last' = [op |-> "import", module |-> m, kind |-> "return",
                                exc |-> NoExc]
           ELSE /\ loaded' = r.loaded
                /\ last' = [op |-> "import", module |-> m, kind |-> "raise",
                            exc |-> Exc("NameError", "Any", NoExc)]
                /\ UNCHANGED <<CONVERTERS, regLog, callerLoaded>>
    /\ UNCHANGED <<interp, fs, converted, callers, heap>>

\* the caller applies @register_converter(format_name) to a class of its own
RegisterConverter(format_name, cls) ==
    /\ "redoc.converters" \in loaded
    /\ Len(regLog) < MaxRegs
    /\ CONVERTERS' = register_converter(CONVERTERS, format_name, cls)
    /\ regLog' = Append(regLog, <<format_name, cls>>)
    /\ last' = [op |-> "register", arg |-> format_name, cls |-> cls,
                before |-> CONVERTERS]
    /\ UNCHANGED <<interp, loaded, callerLoaded, fs, converted, callers, heap>>

GetConverter(format_name) ==
    /\ "redoc.converters" \in loaded
    /\ LET r == get_converter(CONVERTERS, format_name)
       IN  /\ CONVERTERS' = r.reg
           /\ last' = [op |-> "get_converter", arg |-> format_name,
                       before |-> CONVERTERS, res |-> r]
    /\ UNCHANGED <<interp, loaded, callerLoaded, regLog, fs, converted, callers, heap>>

\* the effect of a conversion call on the state
Apply(op, cls, source, target, output_file, kwargs, env, r) ==
    /\ last' = [op |-> op, cls |-> cls, source |-> source, target |-> target,
                output_file |-> output_file, kwargs |-> kwargs, env |-> env,
                before |-> WorldNow, res |-> r]
    /\ fs' = [files |-> last'.res.w.files, dirs |-> last'.res.w.dirs]
    /\ loaded' = last'.res.w.loaded
    /\ CONVERTERS' = last'.res.w.reg
    /\ regLog' = last'.res.w.regLog
    /\ converted' = TRUE
    /\ UNCHANGED <<interp, callerLoaded, callers, heap>>

\* Redoc().convert(source, target_format, output_file, **kwargs)
RedocConvert(source, target_format, output_file, kwargs, env) ==
    /\ ~converted
    /\ "redoc" \in loaded
    /\ Apply("Redoc.convert", None, source, target_format, output_file, kwargs, env,
             Redoc_convert(source, target_format, output_file, kwargs, env, WorldNow))

\* the effect of an OCR or generate call on the state
ApplyFacade(op, source, output_file, kwargs, oenv, r) ==
    /\ last' = [op |-> op, source |-> source, output_file |-> output_file,
                kwargs |-> kwargs, oenv |-> oenv, before |-> WorldNow, res |-> r]
    /\ fs' = [files |-> last'.res.w.files, dirs |-> last'.res.w.dirs]
    /\ converted' = TRUE
    /\ UNCHANGED <<interp, loaded, callerLoaded, CONVERTERS, regLog, callers, heap>>

\* OCRProcessor().process(source, output_file, **kwargs)
OcrProcess(source, output_file, kwargs, oenv) ==
    /\ ~converted
    /\ "redoc.ocr" \in loaded
    /\ ApplyFacade("OCRProcessor.process", source, output_file, kwargs, oenv,
           OCRProcessor_process(OCRProcessor_initialize_engine(oenv), source,
                                output_file, kwargs, oenv, WorldNow))

\* Redoc().ocr(source, output_file, **kwargs)
RedocOcr(source, output_file, kwargs, oenv) ==
    /\ ~converted
    /\ "redoc" \in loaded
    /\ ApplyFacade("Redoc.ocr", source, output_file, kwargs, oenv,
           Redoc_ocr(source, output_file, kwargs, oenv, WorldNow))

\* Redoc().generate(prompt, format, output_file, **kwargs)
RedocGenerate(prompt, format, output_file, kwargs) ==
    /\ ~converted
    /\ "redoc" \in loaded
    /\ ApplyFacade("Redoc.generate", prompt, output_file, kwargs, format,
           Redoc_generate(prompt, format, output_file, kwargs, WorldNow))

\* TemplateManager(model, template_dir).render_template(template_name, data, output_path)
RenderTemplate(template_dir, template_name, data, output_path, tenv) ==
    LET r == TemplateManager_render_template(template_dir, template_name, data,
                                             output_path, tenv, WorldNow)
    IN  /\ ~converted
        /\ last' = [op |-> "render_template", template_dir |-> template_dir,
                    template_name |-> template_name, data |-> data,
                    output_file |-> output_path, tenv |-> tenv,
                    before |-> WorldNow, res |-> r]
        /\ fs' = [files |-> last'.res.w.files, dirs |-> last'.res.w.dirs]
        /\ converted' = TRUE
        /\ UNCHANGED <<interp, loaded, callerLoaded, CONVERTERS, regLog, callers, heap>>

\* the existing source file of a format
SourceOf(format) == PathSource(IF format = "pdf" THEN "a.PDF" ELSE "a." \o format)

\* Redoc().convert called once per step <<target_format, output_file>> of
\* `steps`, each call on the value the call before it returned, until one
\* raises; the results of the calls made, in order
RECURSIVE ConvertInTurn(_, _, _, _, _)
ConvertInTurn(source, steps, env, w, results) ==
    IF steps = << >> THEN results
    ELSE CHOOSE y \in
           {IF r.kind = "raise" THEN Append(results, r)
            ELSE ConvertInTurn(PathSource(r.value), Tail(steps), env, r.w,
                               Append(results, r)) :
              r \in {Redoc_convert(source, Head(steps)[1], Head(steps)[2],
                                   NoKwargs, env, w)}} : TRUE

\* r = Redoc().convert(SourceOf(A), B, out1); Redoc().convert(r, A, out2),
\* the second call made only when the first returned; out1 and out2 are
\* "r.<B>" and "back.<A>", or both None
RoundTrip(A, B, withOutput, env) ==
    LET out1 == IF withOutput THEN "r." \o B ELSE None
        out2 == IF withOutput THEN "back." \o A ELSE None
    IN  /\ ~converted
        /\ "redoc" \in loaded
        /\ \E rs \in {ConvertInTurn(SourceOf(A), <<<<B, out1>>, <<A, out2>>>>, env,
                                    WorldNow, << >>)} :
             last' = [op |-> "roundtrip", A |-> A, B |-> B, withOutput |-> withOutput,
                      env |-> env, before |-> WorldNow, first |-> rs[1],
                      res |-> rs[Len(rs)]]
        /\ fs' = [files |-> last'.res.w.files, dirs |-> last'.res.w.dirs]
        /\ loaded' = last'.res.w.loaded
        /\ CONVERTERS' = last'.res.w.reg
        /\ regLog' = last'.res.w.regLog
        /\ converted' = TRUE
        /\ UNCHANGED <<interp, callerLoaded, callers, heap>>

ClassModule(cls) == CHOOSE m \in BuiltinModules : ModuleClass(m) = cls

\* cls().convert(source, output_file, **kwargs) on a converter of a loaded module
ConverterConvert(cls, source, output_file, kwargs, env) ==
    /\ ~converted
    /\ ClassModule(cls) \in loaded
    /\ Apply("convert", cls, source, None, output_file, kwargs, env,
             Convert(cls, source, output_file, kwargs, env, WorldNow))

-----------------------------------------------------------------------------
(* Specifications *)

\* The registry and the facade, from a fresh interpreter
InitRegistry ==
    /\ interp \in {"eager", "lazy"}
    /\ loaded = {}
    /\ callerLoaded = {}
    /\ CONVERTERS = EmptyRegistry
    /\ regLog = << >>
    /\ fs \in {d \in InitDisks : "out" \in d.dirs}
    /\ last = NoCall
    /\ callers = NoCallers
    /\ heap = NoHeap
    /\ converted = FALSE

NextRegistry ==
    \/ ImportFacade
    \/ \E m \in BuiltinModules : ImportConverterModule(m)
    \/ \E n \in RegNames, c \in CustomClasses : RegisterConverter(n, c)
    \/ \E n \in GetNames : GetConverter(n)
    \/ \E s \in FacadeSources, t \in FacadeTargets, o \in FacadeOutputs :
          RedocConvert(s, t, o, NoKwargs, EnvOk)

SpecRegistry == InitRegistry /\ [][NextRegistry]_vars

\* One call of a converter's convert, after the caller has imported converter
\* modules: all six, or json_converter alone
ModuleOrder ==
    <<"pdf_converter", "html_converter", "xml_converter",
      "json_converter", "docx_converter", "epub_converter">>

RECURSIVE ImportAll(_, _)
ImportAll(ms, w) ==
    IF ms = << >> THEN w ELSE ImportAll(Tail(ms), ImportModule(Head(ms), w))

InitConvert ==
    /\ interp = "lazy"
    /\ \E ms \in {ModuleOrder, <<"json_converter">>} :
         LET w == ImportAll(ms, World({}, {}, PackageModules, EmptyRegistry, << >>))
         IN  /\ loaded = w.loaded
             /\ callerLoaded = SeqToSet(ms)
             /\ CONVERTERS = w.reg
             /\ regLog = w.regLog
    /\ fs \in InitDisks
    /\ last = NoCall
    /\ callers = NoCallers
    /\ heap = NoHeap
    /\ converted = FALSE

NextConvert ==
    /\ ~converted
    /\ \E cls \in BuiltinClasses, s \in PathSources \cup DictSources,
          o \in Outputs, k \in KwargsSet, e \in Envs :
            ConverterConvert(cls, s, o, k, e)

SpecConvert == InitConvert /\ [][NextConvert]_vars

\* One call of the facade, after the caller has imported converter modules
\* (all six, json_converter alone, or none) and possibly registered a class
\* of its own
RegisterIn(w, format_name, cls) ==
    [w EXCEPT !.reg = register_converter(w.reg, format_name, cls),
              !.regLog = Append(w.regLog, <<format_name, cls>>)]

\* the converter modules the caller imported, and the registration it made
CallerSetups ==
    {<<ModuleOrder, << >>>>, <<ModuleOrder, <<"html", "CustomA">>>>,
     <<<<"json_converter">>, <<"html", "CustomA">>>>, <<<< >>, <<"Md", "CustomB">>>>}

ConvertSources ==
    {PathSource("a.html"), PathSource("a.json"), PathSource("a.PDF"),
     PathSource("gone.md"), DictSource({"template", "data"})}

ConvertTargets == {"PDF", "html", "json", "epub", "md", "zz"}

FacadeEnvs == {e \in Envs : e.tool = "ok" /\ e.missing \in {{}, AllLibs}}

InitFacade ==
    /\ interp = "lazy"
    /\ \E c \in CallerSetups :
         LET w0 == ImportAll(c[1], World({}, {}, PackageModules, EmptyRegistry, << >>))
             w == IF c[2] = << >> THEN w0 ELSE RegisterIn(w0, c[2][1], c[2][2])
         IN  /\ loaded = w.loaded
             /\ callerLoaded = SeqToSet(c[1])
             /\ CONVERTERS = w.reg
             /\ regLog = w.regLog
    /\ fs \in InitDisks
    /\ last = NoCall
    /\ callers = NoCallers
    /\ heap = NoHeap
    /\ converted = FALSE

NextFacade ==
    /\ ~converted
    /\ \/ \E s \in ConvertSources, t \in ConvertTargets,
             o \in Outputs, k \in KwargsSet, e \in FacadeEnvs :
               RedocConvert(s, t, o, k, e)
       \/ \E s \in OcrSources, o \in OcrOutputs, k \in OcrKwargs, e \in FacadeOcrEnvs :
               RedocOcr(s, o, k, e)
       \/ \E f \in ConvertTargets, o \in OcrOutputs, k \in OcrKwargs :
               RedocGenerate("a prompt", f, o, k)
       \/ \E A \in BuiltinFormats, B \in BuiltinFormats, o \in BOOLEAN, e \in FacadeEnvs :
               RoundTrip(A, B, o, e)

SpecFacade == InitFacade /\ [][NextFacade]_vars

\* One call of OCRProcessor.process on a fresh processor
\* one template request: a call of TemplateManager.render_template or of
\* HtmlConverter().convert on a template document
\* the caller's use of the handler: import the module, construct
\* PDFTemplateHandler(template_dir) and call render_pdf
RenderPdf(template_dir, template_name, data, output_pdf, tenv, env) ==
    /\ ~converted
    /\ last' = [op |-> "render_pdf", template_dir |-> template_dir,
                template_name |-> template_name, data |-> data,
                output_file |-> output_pdf, tenv |-> tenv, env |-> env,
                before |-> WorldNow,
                res |-> Then(ImportPdfHandler(WorldNow), LAMBDA w1:
                            PDFTemplateHandler_render_pdf(template_dir, template_name,
                                data, output_pdf, tenv, env, w1))]
    /\ fs' = [files |-> last'.res.w.files, dirs |-> last'.res.w.dirs]
    /\ converted' = TRUE
    /\ UNCHANGED <<interp, loaded, callerLoaded, CONVERTERS, regLog, callers, heap>>

\* the same for extract_data
ExtractData(pdf_path, env) ==
    /\ ~converted
    /\ last' = [op |-> "extract_data", source |-> pdf_path, env |-> env,
                before |-> WorldNow,
                res |-> Then(ImportPdfHandler(WorldNow), LAMBDA w1:
                            PDFTemplateHandler_extract_data(pdf_path, env, w1))]
    /\ fs' = [files |-> last'.res.w.files, dirs |-> last'.res.w.dirs]
    /\ converted' = TRUE
    /\ UNCHANGED <<interp, loaded, callerLoaded, CONVERTERS, regLog, callers, heap>>

InitTemplate ==
    /\ interp = "lazy"
    /\ LET w == ImportAll(ModuleOrder, World({}, {}, PackageModules, EmptyRegistry, << >>))
       IN  /\ loaded = w.loaded
           /\ callerLoaded = SeqToSet(ModuleOrder)
           /\ CONVERTERS = w.reg
           /\ regLog = w.regLog
    /\ fs \in InitDisks
    /\ last = NoCall
    /\ callers = NoCallers
    /\ heap = NoHeap
    /\ converted = FALSE

NextTemplate ==
    \/ \E a \in TemplateArgs, e \in TemplateEnvs :
            RenderTemplate(a.template_dir, a.template_name, a.data, a.output_path, e)
    \/ \E s \in TemplateSources, o \in Outputs, k \in KwargsSet, e \in Envs :
            ConverterConvert("HtmlConverter", s, o, k, e)
    \/ \E a \in TemplateArgs, o \in PdfOutputs, t \in TemplateEnvs, e \in Envs :
            RenderPdf(a.template_dir, a.template_name, a.data, o, t, e)
    \/ \E p \in PdfArtifacts, e \in Envs : ExtractData(p, e)

SpecTemplate == InitTemplate /\ [][NextTemplate]_vars

InitOcr ==
    /\ interp = "lazy"
    /\ loaded = PackageModules
    /\ callerLoaded = {}
    /\ CONVERTERS = EmptyRegistry
    /\ regLog = << >>
    /\ fs \in InitDisks
    /\ last = NoCall
    /\ callers = NoCallers
    /\ heap = NoHeap
    /\ converted = FALSE

NextOcr ==
    /\ ~converted
    /\ \E s \in OcrSources, o \in OcrOutputs, k \in OcrKwargs, e \in OcrEnvs :
          OcrProcess(s, o, k, e)

SpecOcr == InitOcr /\ [][NextOcr]_vars

\* Concurrent callers of get_converter, threads of one interpreter: the
\* interpreter switches threads between the operations of a function, and
\* each operation on the dict _CONVERTERS (membership test, item lookup, item
\* assignment) is atomic.
Threads == {"t1", "t2"}

Idle == [pc |-> "idle", name |-> None, began |-> << >>, cls |-> None,
         res |-> NoCall, ended |-> << >>]

\* one operation of thread t inside get_converter(format_name):
\*   idle -> test:    format_name = format_name.lower()
\*   test:            if format_name not in _CONVERTERS: raise UnsupportedFormatError
\*   lookup:          _CONVERTERS[format_name]
\*   call:            the looked-up class is called, its instance returned
\* began and ended are the registrations made when the call began and ended
GetConverterStep(t, format_name) ==
    LET c == callers[t]
        Done(r) == [c EXCEPT !.pc = "done", !.res = r, !.ended = regLog]
    IN  /\ "redoc.converters" \in loaded
        /\ c.pc # "done"
        /\ callers' = [callers EXCEPT ![t] =
             CASE c.pc = "idle" ->
                    [c EXCEPT !.pc = "test", !.name = lower(format_name),
                              !.began = regLog]
               [] c.pc = "test" ->
                    IF c.name \notin DOMAIN CONVERTERS
                    THEN Done([kind |-> "raise", value |-> None,
                               exc |-> Exc("UnsupportedFormatError", c.name, NoExc)])
                    ELSE [c EXCEPT !.pc = "lookup"]
               [] c.pc = "lookup" ->
                    IF c.name \notin DOMAIN CONVERTERS
                    THEN Done([kind |-> "raise", value |-> None,
                               exc |-> Exc("KeyError", c.name, NoExc)])
                    ELSE [c EXCEPT !.pc = "call", !.cls = CONVERTERS[c.name]]
               [] OTHER ->
                    Done([kind |-> "return", value |-> c.cls, exc |-> NoExc])]
        /\ UNCHANGED <<interp, loaded, callerLoaded, CONVERTERS, regLog, fs, last,
                       converted, heap>>

InitConcurrent ==
    /\ interp = "lazy"
    /\ loaded = PackageModules
    /\ callerLoaded = {}
    /\ CONVERTERS = EmptyRegistry
    /\ regLog = << >>
    /\ fs \in {d \in InitDisks : "out" \in d.dirs}
    /\ last = NoCall
    /\ converted = FALSE
    /\ callers = [t \in Threads |-> Idle]
    /\ heap = NoHeap

\* a caller's format name is fixed when its call begins; the steps after the
\* first do not read it
NextConcurrent ==
    \/ \E t \in Threads, n \in {"PDF", "Md"} :
          /\ callers[t].pc = "idle" \/ n = "PDF"
          /\ GetConverterStep(t, n)
    \/ \E n \in RegNames, c \in CustomClasses :
          /\ n = "PDF" \/ c = "CustomA"
          /\ RegisterConverter(n, c)

SpecConcurrent == InitConcurrent /\ [][NextConcurrent]_vars

\* Converter instances.  heap.objects are the instances made, in order of
\* construction, each with its class and the identity of the list bound to
\* self.supported_formats; heap.lists are the items of each list; heap.held
\* are the lists the caller got from get_supported_formats, with the instance
\* asked; heap.mutated are the instances the caller has changed, directly or
\* through a list got from them.

\* a variant of the constructor in which the instances of a class share one
\* list
Construct_shared(h, cls) ==
    IF \E i \in DOMAIN h.objects : h.objects[i].cls = cls
    THEN [h EXCEPT !.objects = Append(@,
             [cls |-> cls,
              supported_formats |->
                  h.objects[CHOOSE i \in DOMAIN h.objects : h.objects[i].cls = cls]
                      .supported_formats])]
    ELSE [h EXCEPT !.lists = Append(@, supported_formats(cls)),
                   !.objects = Append(@, [cls |-> cls,
                                          supported_formats |-> Len(h.lists) + 1])]

\* cls(): __init__ evaluates a list literal, which makes a new list, and
\* binds it to self.supported_formats
Construct(h, cls) ==
    [h EXCEPT !.lists = Append(@, supported_formats(cls)),
              !.objects = Append(@, [cls |-> cls,
                                     supported_formats |-> Len(h.lists) + 1])]

\* get_supported_formats(self): return self.supported_formats, the list
\* itself and not a copy
get_supported_formats(h, self) == h.objects[self].supported_formats

\* get_converter(format_name), with the instance it constructs
GetInstance(format_name) ==
    /\ "redoc.converters" \in loaded
    /\ Len(heap.objects) < MaxInstances
    /\ \E r \in {get_converter(CONVERTERS, format_name)} :
          /\ heap' = IF r.kind = "return" THEN Construct(heap, r.value) ELSE heap
          /\ last' = [op |-> "get_instance", arg |-> format_name, before |-> heap,
                      reg |-> CONVERTERS,
                      res |-> [kind |-> r.kind, exc |-> r.exc,
                               value |-> IF r.kind = "return"
                                         THEN Len(heap.objects) + 1 ELSE 0]]
          /\ CONVERTERS' = r.reg
    /\ UNCHANGED <<interp, loaded, callerLoaded, regLog, fs, converted, callers>>

\* the caller asks an instance it has for its formats and keeps the list
GetSupportedFormats(self) ==
    /\ self \in DOMAIN heap.objects
    /\ heap' = [heap EXCEPT !.held = @ \cup {<<self, get_supported_formats(heap, self)>>}]
    /\ last' = [op |-> "get_supported_formats", self |-> self, before |-> heap,
                reg |-> CONVERTERS,
                res |-> [kind |-> "return", exc |-> NoExc,
                         value |-> get_supported_formats(heap, self)]]
    /\ UNCHANGED <<interp, loaded, callerLoaded, CONVERTERS, regLog, fs, converted,
                   callers>>

\* the caller changes a list it holds: formats.append('zip') or
\* formats.clear(); one change to each instance is followed
MutateList(ref, how) ==
    /\ ref \in heap.held
    /\ ref[1] \notin heap.mutated
    /\ heap' = [heap EXCEPT !.lists[ref[2]] = IF how = "append" THEN @ \cup {"zip"}
                                              ELSE {},
                            !.mutated = @ \cup {ref[1]}]
    /\ last' = [op |-> "mutate", self |-> ref[1], before |-> heap]
    /\ UNCHANGED <<interp, loaded, callerLoaded, CONVERTERS, regLog, fs, converted,
                   callers>>

\* the caller rebinds the attribute of an instance:
\* converter.supported_formats = ['zip']
SetAttribute(self) ==
    /\ self \in DOMAIN heap.objects
    /\ self \notin heap.mutated
    /\ heap' = [heap EXCEPT !.lists = Append(@, {"zip"}),
                            !.objects[self].supported_formats = Len(heap.lists) + 1,
                            !.mutated = @ \cup {self}]
    /\ last' = [op |-> "setattr", self |-> self, before |-> heap]
    /\ UNCHANGED <<interp, loaded, callerLoaded, CONVERTERS, regLog, fs, converted,
                   callers>>

InstanceNames == {"PDF", "html"}

InitInstances ==
    /\ interp = "lazy"
    /\ LET w == ImportAll(ModuleOrder, World({}, {}, PackageModules, EmptyRegistry, << >>))
       IN  /\ loaded = w.loaded
           /\ callerLoaded = SeqToSet(ModuleOrder)
           /\ CONVERTERS = w.reg
           /\ regLog = w.regLog
    /\ fs \in {d \in InitDisks : "out" \in d.dirs}
    /\ last = NoCall
    /\ callers = NoCallers
    /\ heap = NoHeap
    /\ converted = FALSE

NextInstances ==
    \/ \E n \in InstanceNames : GetInstance(n)
    \/ \E i \in 1..MaxInstances : GetSupportedFormats(i)
    \/ \E ref \in heap.held, how \in {"append", "clear"} : MutateList(ref, how)
    \/ \E i \in 1..MaxInstances : SetAttribute(i)

SpecInstances == InitInstances /\ [][NextInstances]_vars


-----------------------------------------------------------------------------
(* Properties of the registry and the facade (SpecRegistry) *)

IsFacadeCall == last.op = "Redoc.convert"

TargetUnregistered == lower(last.target) \notin DOMAIN last.before.reg

\* C1, as stated: Redoc.convert with a target format that has no registered
\* converter raises an UnsupportedFormatError.
C1_RaisesUnsupportedFormatError ==
    (IsFacadeCall /\ TargetUnregistered) =>
        /\ last.res.kind = "raise"
        /\ last.res.exc.type = "UnsupportedFormatError"

\* C1, amended: Redoc.convert with a target format that has no registered
\* converter always raises a RedocError whose cause is an
\* UnsupportedFormatError (never a cause of another kind), the converter is
\* not reached and the disk is unchanged.
C1_RaisesRedocErrorFromUnsupportedFormat ==
    (IsFacadeCall /\ TargetUnregistered) =>
        /\ last.res.kind = "raise"
        /\ last.res.exc.type = "RedocError"
        /\ last.res.exc.cause.type = "UnsupportedFormatError"
        /\ CauseChain(last.res.exc) = <<"RedocError", "UnsupportedFormatError">>
        /\ last.res.w.files = last.before.files
        /\ last.res.w.dirs = last.before.dirs

C1_Witness ==
    /\ IsFacadeCall
    /\ TargetUnregistered
    /\ last.res.kind = "raise"
    /\ DOMAIN last.before.reg # {}

\* C2: get_converter(id) returns the class registered under lower(id) exactly
\* when lower(id) is a key of the registry, raises UnsupportedFormatError
\* otherwise, and leaves the registry as it was.
C2_GetConverterIffRegistered ==
    last.op = "get_converter" =>
        /\ (last.res.kind = "return") <=> (lower(last.arg) \in DOMAIN last.before)
        /\ last.res.kind = "return" => last.res.value = last.before[lower(last.arg)]
        /\ last.res.kind = "raise" => last.res.exc.type = "UnsupportedFormatError"
        /\ last.res.kind \in {"return", "raise"}
        /\ CONVERTERS = last.before

C2_Witness ==
    /\ last.op = "get_converter"
    /\ last.arg # lower(last.arg)
    /\ last.res.kind = "return"
    /\ last.res.value \in CustomClasses

\* the index of the last registration made for key k, 0 when there is none
RECURSIVE LastRegistration(_, _, _)
LastRegistration(log, k, i) ==
    IF i = 0 THEN 0
    ELSE IF lower(log[i][1]) = k THEN i
    ELSE LastRegistration(log, k, i - 1)

\* C3: the registry maps exactly the lowercased names registered so far, each
\* to the class of the most recent registration for it; a registration of f
\* changes no other entry.
C3_LastWriteWins ==
    /\ DOMAIN CONVERTERS = {lower(regLog[i][1]) : i \in DOMAIN regLog}
    /\ \A k \in DOMAIN CONVERTERS :
          CONVERTERS[k] = regLog[LastRegistration(regLog, k, Len(regLog))][2]
    /\ last.op = "register" =>
          /\ lower(last.arg) \in DOMAIN CONVERTERS
          /\ \A k \in DOMAIN last.before :
                k # lower(last.arg) => CONVERTERS[k] = last.before[k]

C3_Witness ==
    /\ Len(regLog) = 2
    /\ lower(regLog[1][1]) = lower(regLog[2][1])
    /\ regLog[1][2] # regLog[2][2]
    /\ last.op = "register"

\* C4, as stated: once the facade has been imported, and before any
\* conversion, get_converter succeeds for each of the six built-in formats
\* without the caller importing a converter module.
C4_BuiltinsRegisteredByFacadeImport ==
    (last.op = "import" /\ last.module = "redoc" /\ callerLoaded = {}) =>
        /\ last.kind = "return"
        /\ \A f \in BuiltinFormats : get_converter(CONVERTERS, f).kind = "return"

-----------------------------------------------------------------------------
(* Properties of one converter call (SpecConvert) *)

IsConvert == last.op = "convert"

Trace == last.res.w.trace

HasStep(kinds) == \E i \in DOMAIN Trace : Trace[i][1] \in kinds

DiskUnchanged ==
    /\ last.res.w.files = last.before.files
    /\ last.res.w.dirs = last.before.dirs

\* C5: with a dict source every converter takes its dict branch first: no
\* path is built from the source, no output path is derived from it and
\* neither the export nor the import path is entered.
C5_DictSourceTakesTemplateBranch ==
    (IsConvert /\ last.source.type = "dict") =>
        /\ Len(Trace) > 0
        /\ Trace[1][1] = "template"
        /\ ~HasStep({"Path(source)", "with_suffix", "export", "import"})
        /\ last.res.kind = "raise" =>
              "TypeError" \notin SeqToSet(CauseChain(last.res.exc))

C5_Witness ==
    /\ IsConvert
    /\ last.source.type = "dict"
    /\ last.res.kind = "return"
    /\ last.cls = "HtmlConverter"
    /\ last.output_file # None

\* C6: with a path source, no output file and no to_format option, every
\* converter fails with a ConversionError caused by the missing-option
\* ValueError, before the export or import path is entered, and creates no
\* file or directory.
C6_MissingTargetIsConversionError ==
    (IsConvert /\ last.source.type = "path" /\ last.output_file = None
        /\ "to_format" \notin DOMAIN last.kwargs) =>
        /\ last.res.kind = "raise"
        /\ CauseChain(last.res.exc) = <<"ConversionError", "ValueError">>
        /\ ~HasStep({"export", "import", "write", "mkdir", "tool"})
        /\ DiskUnchanged

C6_Witness ==
    /\ IsConvert
    /\ last.source.type = "path"
    /\ last.output_file = None
    /\ "to_format" \notin DOMAIN last.kwargs
    /\ last.res.kind = "raise"
    /\ last.cls = "EpubConverter"

WithoutKey(kwargs, key) == [k \in DOMAIN kwargs \ {key} |-> kwargs[k]]

\* C7, as stated: with a path source, no output file and to_format=T, the
\* call ends as the call with the derived output path (the source path with
\* its extension replaced by T) passed explicitly does: same outcome, same
\* returned path, same files and directories.
C7_DerivedOutputAsIfExplicit ==
    (IsConvert /\ last.source.type = "path" /\ last.output_file = None
        /\ "to_format" \in DOMAIN last.kwargs) =>
        LET derived == PathWithSuffix(last.source.path, "." \o last.kwargs["to_format"])
            ref == Convert(last.cls, last.source, derived,
                           WithoutKey(last.kwargs, "to_format"), last.env, last.before)
        IN  /\ last.res.kind = ref.kind
            /\ last.res.value = ref.value
            /\ last.res.w.files = ref.w.files
            /\ last.res.w.dirs = ref.w.dirs

\* the formats the file branch is to dispatch on, by the stated rule
ExpectedFrom ==
    KwGet(last.kwargs, "from_format", lower(DropFirst(PathSuffix(last.source.path))))

ExpectedTo ==
    KwGet(last.kwargs, "to_format",
          lower(DropFirst(PathSuffix(
              IF last.output_file = None
              THEN PathWithSuffix(last.source.path, "." \o last.kwargs["to_format"])
              ELSE last.output_file))))

\* C8, as stated: in the file branch the call is dispatched on the explicit
\* from_format / to_format when given and on the lowercased extensions of
\* the source and output paths otherwise, and an explicit option does not
\* get the call rejected.
C8_DispatchFormats ==
    (IsConvert /\ last.source.type = "path"
        /\ (last.output_file # None \/ "to_format" \in DOMAIN last.kwargs)) =>
        \E i \in DOMAIN Trace :
            \/ /\ ExpectedFrom = NativeFormat(last.cls)
               /\ Trace[i] = <<"export", ExpectedTo>>
            \/ /\ ExpectedFrom # NativeFormat(last.cls)
               /\ Trace[i] = <<"import", ExpectedFrom>>

\* C9, as stated: a call that returns carried out a declared pair: the
\* format it exported to, or imported from, is in the converter's
\* supported-format list.
C9_OnlyDeclaredPairsSucceed ==
    (IsConvert /\ last.source.type = "path" /\ last.res.kind = "return") =>
        \A i \in DOMAIN Trace :
            Trace[i][1] \in {"export", "import"} =>
                Trace[i][2] \in supported_formats(last.cls)

\* the type of the last exception a library, the file system or a tool raised
\* during the call, None when there was none
RECURSIVE LastLowLevel(_, _)
LastLowLevel(t, i) ==
    IF i = 0 THEN None
    ELSE IF t[i][1] = "raise" /\ t[i][2] # "ConversionError" THEN t[i][2]
    ELSE LastLowLevel(t, i - 1)

\* C10, as stated: a failed convert call raises a ConversionError, and the
\* exception a library, the file system or a tool raised is in its cause
\* chain.
C10_ConversionErrorCarriesCause ==
    (IsConvert /\ last.res.kind = "raise") =>
        /\ last.res.exc.type = "ConversionError"
        /\ LET origin == LastLowLevel(Trace, Len(Trace))
           IN  origin # None => origin \in SeqToSet(CauseChain(last.res.exc))

-----------------------------------------------------------------------------
(* Properties of one facade call (SpecFacade) *)

\* what the registry hands out for the lowercased target of the last call
Resolved == get_converter(last.before.reg, lower(last.target))

\* the converter's own convert, called with what the facade was called with
Forwarded ==
    Convert(Resolved.value, last.source, last.output_file, last.kwargs, last.env,
            last.before)

FacadeOps == {"Redoc.convert", "Redoc.ocr", "Redoc.generate"}

\* C12: a call of Redoc.convert, Redoc.ocr or Redoc.generate returns, or
\* raises a RedocError or one of its subclasses; generate never returns: it
\* raises a RedocError caused by the NotImplementedError.
C12_FacadeRaisesOnlyRedocErrors ==
    last.op \in FacadeOps =>
        /\ last.res.kind \in {"return", "raise"}
        /\ last.res.kind = "raise" => IsInstance(last.res.exc, "RedocError")
        /\ last.op = "Redoc.generate" =>
              /\ last.res.kind = "raise"
              /\ CauseChain(last.res.exc) = <<"RedocError", "NotImplementedError">>
              /\ last.res.w.files = last.before.files

C12_Witness ==
    /\ last.op = "Redoc.ocr"
    /\ last.res.kind = "raise"
    /\ CauseChain(last.res.exc) = <<"OCRProcessingError", "FileNotFoundError">>

-----------------------------------------------------------------------------
(* Properties of one template request (SpecTemplate) *)

IsRender == last.op = "render_template"

IsHtmlTemplateConvert ==
    /\ last.op = "convert"
    /\ last.cls = "HtmlConverter"
    /\ last.source.type = "dict"

\* the request is invalid: the template document lacks 'data' or 'template',
\* or the data violates the declared schema
InvalidRequest ==
    \/ IsRender /\ last.data = "invalid"
    \/ IsHtmlTemplateConvert /\ ~({"template", "data"} \subseteq last.source.keys)

ValidationKinds == {"base.TemplateValidationError", "ValidationError"}

\* C13: an invalid template request (the template document lacks 'data' or
\* 'template', or the data violates the schema) raises an exception of the
\* template validation kind, and the call has changed neither the files nor
\* the directories of the disk.
C13_InvalidRequestRaisesValidationFailure ==
    InvalidRequest =>
        /\ last.res.kind = "raise"
        /\ last.res.exc.type \in ValidationKinds
        /\ last.res.w.files = last.before.files
        /\ last.res.w.dirs = last.before.dirs

\* the three failures of render_template the taxonomy names
TemplateAbsent ==
    /\ IsRender /\ last.data = "valid" /\ last.template_dir # None
    /\ (last.template_dir \o "/" \o last.template_name) \notin last.before.files

SubstitutionFails ==
    /\ IsRender /\ last.data = "valid" /\ last.template_dir # None
    /\ (last.template_dir \o "/" \o last.template_name) \in last.before.files
    /\ last.tenv.load /\ ~last.tenv.render

DataInvalid == IsRender /\ last.data = "invalid"

\* what the caller receives from the same manager, on the same disk, for a
\* request that fails in substitution, and for one that fails validation
SubstitutionFailure ==
    TemplateManager_render_template("tpl", "invoice.html", "valid", None,
                                    [load |-> TRUE, render |-> FALSE], last.before)

ValidationFailure ==
    TemplateManager_render_template("tpl", "invoice.html", "invalid", None,
                                    [load |-> TRUE, render |-> TRUE], last.before)

\* C14: render_template raises when the template file is absent and when
\* substitution fails; the exception of the absent template differs in kind
\* from the one of a failed substitution, and both differ in kind from the
\* one of a validation failure; after every failing call the files of the
\* disk are the ones before it.
C14_TemplateFailuresDistinctByKind ==
    /\ TemplateAbsent \/ SubstitutionFails \/ DataInvalid => last.res.kind = "raise"
    /\ IsRender /\ last.res.kind = "raise" => last.res.w.files = last.before.files
    /\ TemplateAbsent =>
          /\ last.res.exc.type # SubstitutionFailure.exc.type
          /\ last.res.exc.type # ValidationFailure.exc.type
    /\ SubstitutionFails => last.res.exc.type # ValidationFailure.exc.type

-----------------------------------------------------------------------------
(* Properties of one OCR call (SpecOcr) *)

IsOcrProcess == last.op = "OCRProcessor.process"

OcrReturned == IsOcrProcess /\ last.res.kind = "return"

IsPdfSource == lower(PathSuffix(last.source)) = ".pdf"

\* every page of the source is recognized on this machine
AllPagesRecognized == last.oenv.bad \cap (1..last.oenv.npages) = {}

\* C15: process on a PDF source of N pages, N >= 0, all of them recognized,
\* with no output file, on a machine with engine and rasterizer, returns; and
\* whenever process returns for a PDF source the result has exactly N page
\* entries, entry k numbered k and holding the text of the k-th page.
C15_PagesNumberedFromOneInOrder ==
    /\ ( /\ IsOcrProcess /\ IsPdfSource
         /\ last.source \in last.before.files
         /\ last.oenv.engine = "ok" /\ last.oenv.pdf2image /\ last.oenv.raster
         /\ AllPagesRecognized
         /\ ~Truthy(last.output_file) )
       => last.res.kind = "return"
    /\ (OcrReturned /\ IsPdfSource) =>
         LET pages == last.res.value.pages
         IN  /\ Len(pages) = last.oenv.npages
             /\ \A k \in 1..Len(pages) :
                  /\ pages[k].page = k
                  /\ pages[k].text = PageText(k)

C15_Witness ==
    /\ OcrReturned /\ IsPdfSource
    /\ last.oenv.npages = MaxPages
    /\ Len(last.res.value.pages) = MaxPages
    /\ last.res.value.pages[MaxPages].page = MaxPages

\* the pages drawn into the artifact, in the order of drawing
DrawnPages ==
    LET d == SelectSeq(Trace, LAMBDA t : t[1] = "drawpage")
    IN  [k \in DOMAIN d |-> d[k][2]]

\* the pages of the source: the images of a PDF, the one image of an image file
SourcePages ==
    IF IsPdfSource THEN [k \in 1..last.oenv.npages |-> k] ELSE <<ImageOf(last.source)>>

\* the result carries the recognized text, at the top or page by page
CarriesText ==
    \/ "text" \in DOMAIN last.res.value
    \/ /\ "pages" \in DOMAIN last.res.value
       /\ \A k \in DOMAIN last.res.value.pages : "text" \in DOMAIN last.res.value.pages[k]

\* C16: when process is called with an output path and returns, the call has
\* written a file at the output location the result reports, the pages of
\* that artifact are the pages of the source in their order, and the result
\* carries the recognized text; for image sources and PDF sources alike.
C16_ArtifactWrittenAtReportedLocation ==
    (OcrReturned /\ Truthy(last.output_file)) =>
        /\ last.res.value.output_file \in last.res.w.files
        /\ \E i \in DOMAIN Trace : Trace[i] = <<"write", last.res.value.output_file>>
        /\ DrawnPages = SourcePages
        /\ CarriesText

\* C17: every result that process returns is a mapping with success true and
\* a top-level 'text', for image sources and PDF sources alike, and for PDF
\* sources it has the sequence of page entries in addition.
C17_ResultHasTopLevelText ==
    OcrReturned =>
        /\ last.res.value.success = TRUE
        /\ "text" \in DOMAIN last.res.value
        /\ IsPdfSource => "pages" \in DOMAIN last.res.value

EngineMissing == IsOcrProcess /\ last.oenv.engine # "ok"

\* the call failed before it looked at the source: it raised as its only step
FailedImmediately ==
    /\ last.res.kind = "raise"
    /\ Trace = <<<<"raise", "OCRProcessingError">>>>
    /\ DiskUnchanged

\* what the caller receives when tesseract fails on the one page of a PDF, on
\* a machine that has the engine
PageFailure ==
    OCRProcessor_process("tesseract", "a.PDF", NoOutput, NoKwargs,
        [engine |-> "ok", pdf2image |-> TRUE, raster |-> TRUE, npages |-> 1,
         bad |-> {1}, reportlab |-> "ok"], last.before)

\* the call failed on a page: a tesseract error is in the cause chain
IsPageFailure ==
    /\ last.res.kind = "raise"
    /\ "TesseractError" \in SeqToSet(CauseChain(last.res.exc))

\* C18 as stated: with the engine missing, process fails before the source is
\* inspected, no page processed and no file written, and the exception differs
\* in kind from the one of a page on which recognition fails.
C18_EngineUnavailableDistinctKind ==
    EngineMissing =>
        /\ FailedImmediately
        /\ last.res.exc.type # PageFailure.exc.type

\* C18 (amended): with the engine missing (library or binary), the processor
\* is made with no engine and every process call raises, as its only step and
\* with the disk unchanged, an OCRProcessingError that has no cause; every
\* other failure of process, a failed page among them, is an
\* OCRProcessingError that has a cause.
C18_EngineUnavailableHasNoCause ==
    /\ EngineMissing =>
          /\ OCRProcessor_initialize_engine(last.oenv) = None
          /\ FailedImmediately
          /\ last.res.exc.type = "OCRProcessingError"
          /\ last.res.exc.tag = "No OCR engine available"
          /\ last.res.exc.cause = NoExc
    /\ (IsOcrProcess /\ ~EngineMissing /\ last.res.kind = "raise") =>
          /\ last.res.exc.type = "OCRProcessingError"
          /\ last.res.exc.cause # NoExc
    /\ (IsOcrProcess /\ IsPageFailure) => ~EngineMissing

C18_Witness ==
    /\ EngineMissing
    /\ last.oenv.engine = "nobinary"
    /\ last.source = "gone.md"
    /\ last.res.kind = "raise"
    /\ last.res.exc.cause = NoExc

-----------------------------------------------------------------------------
(* Properties of the registry across conversions (SpecFacade) *)

\* C20: a conversion leaves the registry as it was: after any convert call,
\* multi-step conversions included, every format maps to the class it mapped
\* to before the call, so a converter the caller registered for a format is
\* still the one registered for it.
C20_ConvertLeavesRegistryUnchanged ==
    last.op = "Redoc.convert" => last.res.w.reg = last.before.reg

-----------------------------------------------------------------------------
(* Round trips through the facade (SpecFacade) *)

\* A and B are registered to built-in converters and the converter of A
\* declares B; every library is present
IsDeclaredRoundTrip ==
    /\ last.op = "roundtrip"
    /\ last.A \in DOMAIN last.before.reg /\ last.B \in DOMAIN last.before.reg
    /\ last.before.reg[last.A] \in BuiltinClasses
    /\ last.before.reg[last.B] \in BuiltinClasses
    /\ last.B \in supported_formats(last.before.reg[last.A])
    /\ last.env = EnvOk

\* C19: for registered formats A and B with B declared by the converter of A,
\* convert(source in A, target B) followed by convert(result, target A) does
\* not fail: both calls return, and the second returns a file of format A
\* that exists.
C19_RoundTripCompletes ==
    IsDeclaredRoundTrip =>
        /\ last.first.kind = "return"
        /\ last.res.kind = "return"
        /\ last.res.value \in last.res.w.files
        /\ lower(DropFirst(PathSuffix(last.res.value))) = last.A

-----------------------------------------------------------------------------
(* Properties of concurrent resolves (SpecConcurrent) *)

\* the class was registered for the name by one of the registrations of log
RegisteredAs(log, name, cls) ==
    \E i \in DOMAIN log : lower(log[i][1]) = name /\ log[i][2] = cls

RegisteredIn(log, name) == \E i \in DOMAIN log : lower(log[i][1]) = name

\* C21: under every interleaving of the get_converter calls of concurrent
\* callers with each other and with register_converter calls, a call that
\* returns returns an instance of a class registered for its format before
\* it returned, a call whose format was registered before the call began
\* returns, and every key of the registry maps to a class that was
\* registered for it.
C21_ConcurrentResolveIsSafe ==
    /\ \A t \in DOMAIN callers :
         callers[t].pc = "done" =>
           /\ callers[t].res.kind = "return" =>
                RegisteredAs(callers[t].ended, callers[t].name, callers[t].res.value)
           /\ RegisteredIn(callers[t].began, callers[t].name) =>
                callers[t].res.kind = "return"
    /\ \A k \in DOMAIN CONVERTERS : RegisteredAs(regLog, k, CONVERTERS[k])

\* one caller returned a class that was registered while its call was under
\* way, after another registration for the same format; the other caller failed
C21_Witness ==
    /\ DOMAIN callers = Threads
    /\ callers["t1"].pc = "done" /\ callers["t1"].res.kind = "return"
    /\ Len(callers["t1"].began) = 1
    /\ Len(callers["t1"].ended) = 2
    /\ callers["t2"].pc = "done" /\ callers["t2"].res.kind = "raise"

-----------------------------------------------------------------------------
(* Properties of the steps of one conversion call (SpecConvert) *)

\* the source format the converter resolves for a path source: the option
\* from_format, or the converter's default (the suffix for PDF, the constant
\* 'html' for HTML, the native format on a matching suffix and None otherwise
\* for the other four)
ResolvedFrom ==
    LET suffix == lower(DropFirst(PathSuffix(last.source.path)))
        native == NativeFormat(last.cls)
    IN  KwGet(last.kwargs, "from_format",
              CASE last.cls = "PdfConverter" -> suffix
                [] last.cls = "HtmlConverter" -> "html"
                [] OTHER -> IF suffix = native THEN native ELSE None)

\* the export and import steps of the call itself: those made before any
\* step of a second converter, which starts with its own Path(source)
RECURSIVE OwnDispatch(_, _)
OwnDispatch(trace, started) ==
    IF trace = << >> THEN << >>
    ELSE IF Head(trace)[1] = "Path(source)"
         THEN IF started THEN << >> ELSE OwnDispatch(Tail(trace), TRUE)
         ELSE IF Head(trace)[1] \in {"export", "import"}
              THEN <<Head(trace)>> \o OwnDispatch(Tail(trace), started)
              ELSE OwnDispatch(Tail(trace), started)

\* the call is in the file branch and has an output path to dispatch to
ReachesDispatch ==
    /\ IsConvert /\ last.source.type = "path"
    /\ last.output_file # None \/ "to_format" \in DOMAIN last.kwargs

\* C22: a file-branch call enters exactly one of the two paths: the export
\* path if the resolved source format is the converter's native format, the
\* import path if it is any other format.
C22_ExactlyOnePathByPolicy ==
    ReachesDispatch =>
        /\ Len(OwnDispatch(Trace, FALSE)) = 1
        /\ OwnDispatch(Trace, FALSE)[1][1] =
              IF ResolvedFrom = NativeFormat(last.cls) THEN "export" ELSE "import"

\* the call wrote a file at the path
WroteAt(path) == \E i \in DOMAIN Trace : Trace[i] = <<"write", path>>

\* C23: a convert call that returns an output path wrote an artifact at that
\* path during the call; a call that wrote nothing does not return a path.
\* (the template branch without an output file returns the rendered content,
\* not a path)
ReturnsPath ==
    /\ IsConvert /\ last.res.kind = "return"
    /\ last.source.type = "path" \/ last.output_file # None

C23_ReturnedPathWasWritten == ReturnsPath => WroteAt(last.res.value)

\* the routes the call tried: tool invocations (the version probe of
\* ebook-convert is not a conversion) and second routes taken after a failure
Attempts == SelectSeq(Trace, LAMBDA st : st[1] = "tool" /\ st[2] # "ebook-convert --version")

Fallbacks == SelectSeq(Trace, LAMBDA st : st[1] = "fallback")

TerminalAt(i) ==
    \A j \in (i + 1)..Len(Trace) : Trace[j][1] \in {"raise", "unlink"}

C25_MkdirBeforeEveryWrite ==
    IsConvert =>
        \A i \in DOMAIN Trace :
            (Trace[i][1] = "write" /\ Trace[i][2] # TempHtml) =>
                \E j \in 1..(i - 1) : Trace[j] = <<"mkdir", PathParent(Trace[i][2])>>

\* the intermediate files of the call: the temporary HTML file, and every
\* file the call wrote and then gave as the source to its second step
Intermediates ==
    {p \in last.res.w.files \cup {TempHtml} :
        \E i \in DOMAIN Trace :
            /\ Trace[i] = <<"write", p>>
            /\ \/ p = TempHtml
               \/ \E j \in (i + 1)..Len(Trace) :
                     Trace[j] \in {<<"read", p>>, <<"Path(source)", p>>}}

\* C27: no intermediate file of a conversion call exists when the call ends,
\* whether it returns or raises.
C27_NoIntermediateSurvives ==
    IsConvert => \A p \in Intermediates : p \notin last.res.w.files

-----------------------------------------------------------------------------
(* Properties of a failed page (SpecOcr) *)

\* the outcome of the same call had recognition failed on page j instead
FailureOnPage(j) ==
    OCRProcessor_process(OCRProcessor_initialize_engine(last.oenv), last.source,
        last.output_file, last.kwargs, [last.oenv EXCEPT !.bad = {j}], last.before)

\* C29: when recognition fails on page k of a PDF source, the exception the
\* caller receives identifies page k: it is not the exception the same call
\* raises when recognition fails on another page.
C29_FailureIdentifiesPage ==
    (IsOcrProcess /\ IsPdfSource /\ IsPageFailure) =>
        \A j \in 1..last.oenv.npages :
            FailureOnPage(j).exc = last.res.exc => j \in last.oenv.bad

-----------------------------------------------------------------------------
(* Properties of the PDF template handler (SpecTemplate) *)

IsRenderPdf == last.op = "render_pdf"

IsExtractData == last.op = "extract_data"

\* the position of the first step of the kind in the trace, 0 if there is none
FirstStep(kind) ==
    IF \E i \in DOMAIN Trace : Trace[i][1] = kind
    THEN CHOOSE i \in DOMAIN Trace :
            /\ Trace[i][1] = kind
            /\ \A j \in 1..(i - 1) : Trace[j][1] # kind
    ELSE 0

\* the template exists, loads and renders with the data, and the data is valid
Renderable ==
    /\ last.data = "valid" /\ last.template_dir # None
    /\ (last.template_dir \o "/" \o last.template_name) \in last.before.files
    /\ last.tenv.load /\ last.tenv.render

\* C26: a render_pdf call on a renderable request validates the data, renders
\* the template, writes the markup to a temporary file and invokes the
\* converter on that file, in this order; and when any render_pdf call ends,
\* returning or raising, the temporary file does not exist.
C26_RenderPdfStagesAndCleans ==
    IsRenderPdf =>
        /\ TempHtml \notin last.res.w.files
        /\ Renderable =>
              /\ 0 < FirstStep("validate")
              /\ FirstStep("validate") < FirstStep("render")
              /\ FirstStep("render") < FirstStep("write")
              /\ Trace[FirstStep("write")] = <<"write", TempHtml>>
              /\ FirstStep("write") < FirstStep("Path(source)")
              /\ Trace[FirstStep("Path(source)")] = <<"Path(source)", TempHtml>>

\* C28: extract_data on an existing PDF returns a mapping that holds the
\* text extracted from the markup the PDF converter produced; and when any
\* extract_data call ends, returning or raising, the temporary markup file
\* does not exist.
C28_ExtractReturnsTextAndCleans ==
    IsExtractData =>
        /\ TempHtml \notin last.res.w.files
        /\ last.source \in last.before.files =>
              /\ last.res.kind = "return"
              /\ last.res.value.content.text # ""

-----------------------------------------------------------------------------
(* Properties of converter instances (SpecInstances) *)

\* the formats seen through an instance
FormatsThrough(h, i) == h.lists[h.objects[i].supported_formats]

\* C30: every get_converter call that returns makes a new instance of the
\* registered class, with a list of its own; what the caller does to one
\* instance, or to the list get_supported_formats returned for it, is not
\* seen through any other instance, which still reports the formats of its
\* class; and get_supported_formats changes no instance, no list and no
\* registration.
C30_InstancesAreFreshAndIsolated ==
    /\ (last.op = "get_instance" /\ last.res.kind = "return") =>
          /\ last.res.value \notin DOMAIN last.before.objects
          /\ last.res.value \in DOMAIN heap.objects
          /\ heap.objects[last.res.value].cls = last.reg[lower(last.arg)]
          /\ \A i \in DOMAIN last.before.objects :
                heap.objects[i] = last.before.objects[i]
          /\ heap.lists[heap.objects[last.res.value].supported_formats] =
                supported_formats(heap.objects[last.res.value].cls)
    /\ \A i, j \in DOMAIN heap.objects :
          i # j => heap.objects[i].supported_formats # heap.objects[j].supported_formats
    /\ \A i \in DOMAIN heap.objects :
          i \notin heap.mutated =>
              FormatsThrough(heap, i) = supported_formats(heap.objects[i].cls)
    /\ last.op = "get_supported_formats" =>
          /\ heap.objects = last.before.objects
          /\ heap.lists = last.before.lists
          /\ CONVERTERS = last.reg

\* two instances of one class; the list of the first was emptied through the
\* list get_supported_formats returned, the second still reports the five
\* formats of the class
C30_Witness ==
    /\ Len(heap.objects) = 2
    /\ heap.objects[1].cls = "PdfConverter" /\ heap.objects[2].cls = "PdfConverter"
    /\ heap.mutated = {1}
    /\ FormatsThrough(heap, 1) = {}
    /\ FormatsThrough(heap, 2) = {"html", "xml", "json", "docx", "epub"}

====
